---- MODULE Spec2Model ----
(***************************************************************************)
(* Boundary-condition units of TorchSWE (torchswe/bcs): the linear         *)
(* extrapolation scheme in its two variants and the outflow (constant      *)
(* extrapolation) scheme.                                                  *)
(*                                                                         *)
(* Numbers.  The kernels compute on IEEE doubles.  The model computes on   *)
(* dyadic rationals with denominator Unit: the integer n stands for the    *)
(* double n / Unit.  Cell-centre values, bed elevations and tolerances are *)
(* whole numbers (multiples of Unit), so that every sum, difference,       *)
(* halving and product the kernels form is again a multiple of 1 / Unit    *)
(* and the double arithmetic on them is exact.                             *)
(***************************************************************************)
EXTENDS Integers, Sequences, FiniteSets, TLC

VARIABLES
    kin,      \* element level: the input tuple handed to one kernel element
    kout,     \* element level: the kernel last applied to kin and what it wrote
    ngh,      \* states.domain.nhalo (states.ngh): the ghost-layer count
    shape,    \* the shape of every array of the domain state and the topography
    build,    \* how the build treats an exception in a cdef void function
    args,     \* the arguments of the last factory call
    ret,      \* what the last factory call handed to its caller
    bcs,      \* run level: the units of the run, by edge and variable group
    mem,      \* run level: the elements of every array
    profile,  \* run level: which interior state the solver has last produced
    last,     \* run level: the unit last invoked, if nothing happened since
    twice,    \* run level: the last step invoked the unit invoked just before
    fresh,    \* run level: the edges whose depth unit has run since the
              \* interior state last changed
    intact,   \* run level: the edges whose depth unit has run with no write
              \* to their depth slots since
    steps     \* run level: steps taken

kvars == <<kin, kout>>

fvars == <<ngh, shape, build, args, ret>>

rvars == <<bcs, mem, profile, last, twice, fresh, intact, steps>>

vars ==
    <<kin, kout, ngh, shape, build, args, ret, bcs, mem, profile, last, twice, fresh,
      intact, steps>>

----------------------------------------------------------------------------
(* Bounds of the element-level inputs: whole numbers from -1 to the bound. *)
MaxW == 3
MaxH == 2
MaxB == 2
MaxTol == 1
MaxVel == 2

Unit == 2 * 2

Num(k) == k * Unit

NumRange(lo, hi) == { Num(k) : k \in lo..hi }

\* x / 2.0
Half(x) == x \div 2

\* a * b, for the doubles a / Unit and b / Unit
Mul(a, b) == (a * b) \div Unit

----------------------------------------------------------------------------
(* The elementwise kernels.  Each takes the inputs of one element and      *)
(* yields the six values written for that element.                         *)

\* the dry-stencil branch of both hc0-based depth kernels
DryStencil(bbc, bother) ==
    [wbci |-> bbc, wbco |-> bbc, wother |-> bother,
     hbci |-> 0, hbco |-> 0, hother |-> 0]

\* a depth kernel without the negative-depth fix
Mut_fix_negative_depth(hbci, hother, hc0, tol) ==
    [hbci |-> hbci, hother |-> hother]

\* a depth kernel whose mirror writes hc0 instead of 2 * hc0
Mut_fix_mirror_depth(hbci, hother, hc0, tol) ==
    IF hbci < tol THEN [hbci |-> 0, hother |-> hc0]
    ELSE IF hother < tol THEN [hbci |-> hc0, hother |-> 0]
    ELSE [hbci |-> hbci, hother |-> hother]

\* "if (hbci < tol) {...} else if (hother < tol) {...}" of the hc0-based kernels
fix_negative_depth(hbci, hother, hc0, tol) ==
    IF hbci < tol THEN [hbci |-> 0, hother |-> hc0 * 2]
    ELSE IF hother < tol THEN [hbci |-> hc0 * 2, hother |-> 0]
    ELSE [hbci |-> hbci, hother |-> hother]

\* the tail shared by the hc0-based depth kernels, with the elevations left
\* as extrapolated instead of recomputed from the depths
Mut_reconstruct_w(h, wbci, wother, bbc, bother) ==
    [wbci |-> wbci, wbco |-> wbci, wother |-> wother,
     hbci |-> h.hbci, hbco |-> h.hbci, hother |-> h.hother]

\* "hbco = hbci; wbci = hbci + bbc; wbco = hbco + bbc; wother = hother + bother"
\* (wbci and wother are the extrapolated elevations, which the code overwrites)
reconstruct_w(h, wbci, wother, bbc, bother) ==
    LET hbco == h.hbci
    IN  [wbci |-> h.hbci + bbc, wbco |-> hbco + bbc, wother |-> h.hother + bother,
         hbci |-> h.hbci, hbco |-> hbco, hother |-> h.hother]

\* the linear depth kernel with the dry-stencil test dropped
Mut_linear_extrap_bc_w_h_kernel(wc0, wc1, hc0, bbc, bother, tol) ==
    LET dw == Half(wc0 - wc1)
        hbci == wc0 + dw - bbc
        hother == wc0 - dw - bother
    IN  reconstruct_w(fix_negative_depth(hbci, hother, hc0, tol),
                      wc0 + dw, wc0 - dw, bbc, bother)

\* the linear depth kernel with the slope taken the other way round
Mut_slope_linear_extrap_bc_w_h_kernel(wc0, wc1, hc0, bbc, bother, tol) ==
    IF hc0 < tol
    THEN DryStencil(bbc, bother)
    ELSE LET dw == Half(wc1 - wc0)
             hbci == wc0 + dw - bbc
             hother == wc0 - dw - bother
         IN  reconstruct_w(fix_negative_depth(hbci, hother, hc0, tol),
                           wc0 + dw, wc0 - dw, bbc, bother)

\* _linear_extrap_bc_w_h_kernel of the hc0-based linear scheme
linear_extrap_bc_w_h_kernel(wc0, wc1, hc0, bbc, bother, tol) ==
    IF hc0 < tol
    THEN DryStencil(bbc, bother)
    ELSE LET dw == Half(wc0 - wc1)
             hbci == wc0 + dw - bbc
             hother == wc0 - dw - bother
         IN  reconstruct_w(fix_negative_depth(hbci, hother, hc0, tol),
                           wc0 + dw, wc0 - dw, bbc, bother)

\* an outflow depth kernel that measures the other face against bbc
Mut_outflow_bc_w_h_kernel(wc0, hc0, bbc, bother, tol) ==
    IF hc0 < tol
    THEN DryStencil(bbc, bother)
    ELSE LET hbci == wc0 - bbc
             hother == wc0 - bbc
         IN  reconstruct_w(fix_negative_depth(hbci, hother, hc0, tol),
                           wc0, wc0, bbc, bother)

\* _outflow_bc_w_h_kernel
outflow_bc_w_h_kernel(wc0, hc0, bbc, bother, tol) ==
    IF hc0 < tol
    THEN DryStencil(bbc, bother)
    ELSE LET hbci == wc0 - bbc
             hother == wc0 - bother
         IN  reconstruct_w(fix_negative_depth(hbci, hother, hc0, tol),
                           wc0, wc0, bbc, bother)

\* the Q-based depth kernel mirroring the elevation about the bed of the
\* face it fills instead of the bed of the face it empties
Mut_mirror_q_linear_extrap_bc_w_h_kernel(wc0, wc1, bbc, bother, tol) ==
    LET dw == Half(wc0 - wc1)
        hbci0 == wc0 + dw - bbc
        hother0 == wc0 - dw - bother
        hbci1 == IF hbci0 < tol THEN 0
                 ELSE IF hother0 < tol THEN (wc0 * 2 - bbc) - bbc ELSE hbci0
        hother1 == IF hbci0 < tol THEN (wc0 * 2 - bother) - bother
                   ELSE IF hother0 < tol THEN 0 ELSE hother0
    IN  [wbci |-> hbci1 + bbc, wbco |-> hbci1 + bbc, wother |-> hother1 + bother,
         hbci |-> hbci1, hbco |-> hbci1, hother |-> hother1]

\* the Q-based depth kernel with "hbco = hbci" placed before the fix
Mut_q_linear_extrap_bc_w_h_kernel(wc0, wc1, bbc, bother, tol) ==
    LET dw == Half(wc0 - wc1)
        hbci0 == wc0 + dw - bbc
        hother0 == wc0 - dw - bother
        hbci1 == IF hbci0 < tol THEN 0
                 ELSE IF hother0 < tol THEN (wc0 * 2 - bother) - bbc ELSE hbci0
        hother1 == IF hbci0 < tol THEN (wc0 * 2 - bbc) - bother
                   ELSE IF hother0 < tol THEN 0 ELSE hother0
    IN  [wbci |-> hbci1 + bbc, wbco |-> hbci1 + bbc, wother |-> hother1 + bother,
         hbci |-> hbci1, hbco |-> hbci0, hother |-> hother1]

\* _linear_extrap_bc_w_h_kernel of the Q-based linear scheme: no hc0, the
\* fix mirrors the elevation about wc0
q_linear_extrap_bc_w_h_kernel(wc0, wc1, bbc, bother, tol) ==
    LET dw == Half(wc0 - wc1)
        wbci0 == wc0 + dw
        wother0 == wc0 - dw
        hbci0 == wbci0 - bbc
        hother0 == wother0 - bother
        \* fix negative depth
        wbci1 == IF hbci0 < tol THEN bbc
                 ELSE IF hother0 < tol THEN wc0 * 2 - bother ELSE wbci0
        wother1 == IF hbci0 < tol THEN wc0 * 2 - bbc
                   ELSE IF hother0 < tol THEN bother ELSE wother0
        hbci1 == IF hbci0 < tol THEN 0
                 ELSE IF hother0 < tol THEN wbci1 - bbc ELSE hbci0
        hother1 == IF hbci0 < tol THEN wother1 - bother
                   ELSE IF hother0 < tol THEN 0 ELSE hother0
        \* reconstruct
        wbci2 == hbci1 + bbc
        wother2 == hother1 + bother
    IN  [wbci |-> wbci2, wbco |-> wbci2, wother |-> wother2,
         hbci |-> hbci1, hbco |-> hbci1, hother |-> hother1]

\* a face gate that tests the depth against 0 instead of drytol
Mut_gate_face(h, u, drytol) ==
    IF h <= 0 THEN [u |-> 0, q |-> 0] ELSE [u |-> u, q |-> Mul(h, u)]

\* "if (h < drytol) { u = 0; q = 0; } else { u = ...; q = h * u; }"
gate_face(h, u, drytol) ==
    IF h < drytol THEN [u |-> 0, q |-> 0] ELSE [u |-> u, q |-> Mul(h, u)]

\* _linear_extrap_bc_kernel of the hc0-based linear scheme
linear_extrap_bc_kernel(uc0, uc1, hbci, hbco, hother, drytol) ==
    LET du == Half(uc0 - uc1)
        bco == gate_face(hbco, uc0 + du, drytol)
        bci == gate_face(hbci, uc0 + du, drytol)
        oth == gate_face(hother, uc0 - du, drytol)
    IN  [qbci |-> bci.q, qbco |-> bco.q, qother |-> oth.q,
         ubci |-> bci.u, ubco |-> bco.u, uother |-> oth.u]

\* an outflow velocity kernel that takes the momentum of the other face from
\* the depth of the boundary face
Mut_outflow_bc_kernel(uc0, hbci, hbco, hother, drytol) ==
    LET bco == gate_face(hbco, uc0, drytol)
        bci == gate_face(hbci, uc0, drytol)
        oth == gate_face(hbci, uc0, drytol)
    IN  [qbci |-> bci.q, qbco |-> bco.q, qother |-> oth.q,
         ubci |-> bci.u, ubco |-> bco.u, uother |-> oth.u]

\* _outflow_bc_kernel
outflow_bc_kernel(uc0, hbci, hbco, hother, drytol) ==
    LET bco == gate_face(hbco, uc0, drytol)
        bci == gate_face(hbci, uc0, drytol)
        oth == gate_face(hother, uc0, drytol)
    IN  [qbci |-> bci.q, qbco |-> bco.q, qother |-> oth.q,
         ubci |-> bci.u, ubco |-> bco.u, uother |-> oth.u]

\* A double that a division produced, as an extended rational: n / d in the
\* scale of the other doubles, d > 0 and the fraction reduced; d = 0 stands
\* for what IEEE 754 gives a division by zero: n = 1 for +inf, n = -1 for
\* -inf, n = 0 for NaN.
RECURSIVE Gcd(_, _)
Gcd(a, b) == IF b = 0 THEN a ELSE Gcd(b, a % b)

Abs(x) == IF x < 0 THEN -x ELSE x

Sign(x) == IF x < 0 THEN -1 ELSE IF x > 0 THEN 1 ELSE 0

Fin(x) == [n |-> x, d |-> 1]

NaN == [n |-> 0, d |-> 0]

\* a / b for doubles a, b
Div(a, b) ==
    IF b = 0 THEN [n |-> Sign(a), d |-> 0]
    ELSE LET k == Gcd(Abs(a * Unit), Abs(b))
         IN  [n |-> (Sign(b) * a * Unit) \div k, d |-> Abs(b) \div k]

\* h * (q / h) for doubles h, q: q when h is not 0 (rounding left aside),
\* NaN when it is, as 0 * inf and 0 * NaN are
MulDiv(h, q) == IF h = 0 THEN NaN ELSE Fin(q)

\* _linear_extrap_bc_kernel of the Q-based linear scheme: the velocity is
\* the extrapolated momentum divided by the face depth; hbco is not read
q_linear_extrap_bc_kernel(qc0, qc1, hbci, hbco, hother, drytol) ==
    LET dq == Half(qc0 - qc1)
        ubci == Div(qc0 + dq, hbci)
        uother == Div(qc0 - dq, hother)
        \* reconstruct
        qbci == MulDiv(hbci, qc0 + dq)
        qother == MulDiv(hother, qc0 - dq)
        gbc == hbci < drytol
        goth == hother < drytol
    IN  [qbci |-> IF gbc THEN Fin(0) ELSE qbci,
         qbco |-> IF gbc THEN Fin(0) ELSE qbci,
         qother |-> IF goth THEN Fin(0) ELSE qother,
         ubci |-> IF gbc THEN Fin(0) ELSE ubci,
         ubco |-> IF gbc THEN Fin(0) ELSE ubci,
         uother |-> IF goth THEN Fin(0) ELSE uother]

----------------------------------------------------------------------------
(* Arrays and views.  An array is named by its place in the domain state:  *)
(* Q, U (cell centres, ghost layers included), xmQ, xpQ, ymQ, ypQ, xmU,    *)
(* xpU, ymU, ypU (minus- and plus-side face buffers of both axes) and Bx,  *)
(* By (bed elevation at the faces).  A view is a slice descriptor: the     *)
(* array, the component and the inclusive row and column ranges it covers. *)
(* Indices are 0-based, as in the source.                                  *)

\* bounds of the grids: NX, NY interior cells in 1 .. MaxN, nhalo in 1 .. MaxNgh
MaxN == 2
MaxNgh == 3

\* the shapes of the arrays of a grid of NX by NY interior cells with g ghost
\* layers; Bx and By have no component axis
Shapes(NX, NY, g) ==
    [Q   |-> <<3, NY + 2 * g, NX + 2 * g>>,
     U   |-> <<3, NY + 2 * g, NX + 2 * g>>,
     xmQ |-> <<3, NY, NX + 1>>, xpQ |-> <<3, NY, NX + 1>>,
     ymQ |-> <<3, NY + 1, NX>>, ypQ |-> <<3, NY + 1, NX>>,
     xmU |-> <<3, NY, NX + 1>>, xpU |-> <<3, NY, NX + 1>>,
     ymU |-> <<3, NY + 1, NX>>, ypU |-> <<3, NY + 1, NX>>,
     Bx  |-> <<NY, NX + 1>>,
     By  |-> <<NY + 1, NX>>]

\* A.shape[k]
Shape(sh, A, k) == sh[A][k + 1]

\* an integer index i, a slice lo:hi and the full slice ":" of an axis of n
Ix(i) == [lo |-> i, hi |-> i + 1]
Sl(lo, hi) == [lo |-> lo, hi |-> hi]
All(n) == [lo |-> 0, hi |-> n]

\* A[comp, rows, cols] (A[rows, cols] for Bx and By, held as component 0)
View(A, comp, rows, cols) ==
    [buf |-> A, comp |-> comp,
     r0 |-> rows.lo, r1 |-> rows.hi - 1, c0 |-> cols.lo, c1 |-> cols.hi - 1]

\* an attribute that is None
NoView == [buf |-> "None", comp |-> 0, r0 |-> 0, r1 |-> -1, c0 |-> 0, c1 |-> -1]

(* The view mappers.  Each yields the views one edge binds; the arrays are *)
(* named as the factories pass them (Qmx is states.face.x.minus.Q, that is *)
(* xmQ, Hpx is states.face.x.plus.U, that is xpU, and so on).              *)

\* a west binding whose wother output aliases the second interior layer the
\* kernel reads
Mut_linear_extrap_bc_set_west(cls, sh, ngh_, comp, tol, drytol) ==
    LET depth == [hbci |-> View("xpU", 0, All(Shape(sh, "xpU", 1)), Ix(0)),
                 hbco |-> View("xmU", 0, All(Shape(sh, "xmU", 1)), Ix(0)),
                 hother |-> View("xmU", 0, All(Shape(sh, "xmU", 1)), Ix(1))]
    IN  IF cls = "LinearExtrapWH"
        THEN [cls |-> cls, tol |-> tol, drytol |-> 0,
              v |-> depth @@
                [wc0 |-> View("Q", 0, Sl(ngh_, Shape(sh, "Q", 1) - ngh_), Ix(ngh_)),
                 wc1 |-> View("Q", 0, Sl(ngh_, Shape(sh, "Q", 1) - ngh_), Ix(ngh_ + 1)),
                 wbci |-> View("xpQ", 0, All(Shape(sh, "xpQ", 1)), Ix(0)),
                 wbco |-> View("xmQ", 0, All(Shape(sh, "xmQ", 1)), Ix(0)),
                 wother |-> View("Q", 0, Sl(ngh_, Shape(sh, "Q", 1) - ngh_), Ix(ngh_ + 1)),
                 hc0 |-> View("U", 0, Sl(ngh_, Shape(sh, "U", 1) - ngh_), Ix(ngh_)),
                 bbc |-> View("Bx", 0, All(Shape(sh, "Bx", 0)), Ix(0)),
                 bother |-> View("Bx", 0, All(Shape(sh, "Bx", 0)), Ix(1))]]
        ELSE [cls |-> cls, tol |-> 0, drytol |-> drytol,
              v |-> depth @@
                [qbci |-> View("xpQ", comp, All(Shape(sh, "xpQ", 1)), Ix(0)),
                 qbco |-> View("xmQ", comp, All(Shape(sh, "xmQ", 1)), Ix(0)),
                 qother |-> View("xmQ", comp, All(Shape(sh, "xmQ", 1)), Ix(1)),
                 uc0 |-> View("U", comp, Sl(ngh_, Shape(sh, "Q", 1) - ngh_), Ix(ngh_)),
                 uc1 |-> View("U", comp, Sl(ngh_, Shape(sh, "Q", 1) - ngh_), Ix(ngh_ + 1)),
                 ubci |-> View("xpU", comp, All(Shape(sh, "xpU", 1)), Ix(0)),
                 ubco |-> View("xmU", comp, All(Shape(sh, "xmU", 1)), Ix(0)),
                 uother |-> View("xmU", comp, All(Shape(sh, "xmU", 1)), Ix(1))]]

\* _linear_extrap_bc_set_west of part_000
linear_extrap_bc_set_west(cls, sh, ngh_, comp, tol, drytol) ==
    LET depth == [hbci |-> View("xpU", 0, All(Shape(sh, "xpU", 1)), Ix(0)),
                 hbco |-> View("xmU", 0, All(Shape(sh, "xmU", 1)), Ix(0)),
                 hother |-> View("xmU", 0, All(Shape(sh, "xmU", 1)), Ix(1))]
    IN  IF cls = "LinearExtrapWH"
        THEN [cls |-> cls, tol |-> tol, drytol |-> 0,
              v |-> depth @@
                [wc0 |-> View("Q", 0, Sl(ngh_, Shape(sh, "Q", 1) - ngh_), Ix(ngh_)),
                 wc1 |-> View("Q", 0, Sl(ngh_, Shape(sh, "Q", 1) - ngh_), Ix(ngh_ + 1)),
                 wbci |-> View("xpQ", 0, All(Shape(sh, "xpQ", 1)), Ix(0)),
                 wbco |-> View("xmQ", 0, All(Shape(sh, "xmQ", 1)), Ix(0)),
                 wother |-> View("xmQ", 0, All(Shape(sh, "xmQ", 1)), Ix(1)),
                 hc0 |-> View("U", 0, Sl(ngh_, Shape(sh, "U", 1) - ngh_), Ix(ngh_)),
                 bbc |-> View("Bx", 0, All(Shape(sh, "Bx", 0)), Ix(0)),
                 bother |-> View("Bx", 0, All(Shape(sh, "Bx", 0)), Ix(1))]]
        ELSE [cls |-> cls, tol |-> 0, drytol |-> drytol,
              v |-> depth @@
                [qbci |-> View("xpQ", comp, All(Shape(sh, "xpQ", 1)), Ix(0)),
                 qbco |-> View("xmQ", comp, All(Shape(sh, "xmQ", 1)), Ix(0)),
                 qother |-> View("xmQ", comp, All(Shape(sh, "xmQ", 1)), Ix(1)),
                 uc0 |-> View("U", comp, Sl(ngh_, Shape(sh, "Q", 1) - ngh_), Ix(ngh_)),
                 uc1 |-> View("U", comp, Sl(ngh_, Shape(sh, "Q", 1) - ngh_), Ix(ngh_ + 1)),
                 ubci |-> View("xpU", comp, All(Shape(sh, "xpU", 1)), Ix(0)),
                 ubco |-> View("xmU", comp, All(Shape(sh, "xmU", 1)), Ix(0)),
                 uother |-> View("xmU", comp, All(Shape(sh, "xmU", 1)), Ix(1))]]

\* an east binding that takes the west edge's views
Mut_linear_extrap_bc_set_east(cls, sh, ngh_, comp, tol, drytol) ==
    linear_extrap_bc_set_west(cls, sh, ngh_, comp, tol, drytol)

\* _linear_extrap_bc_set_east of part_000
linear_extrap_bc_set_east(cls, sh, ngh_, comp, tol, drytol) ==
    LET depth == [hbci |-> View("xmU", 0, All(Shape(sh, "xmU", 1)), Ix(Shape(sh, "xmU", 2) - 1)),
                 hbco |-> View("xpU", 0, All(Shape(sh, "xpU", 1)), Ix(Shape(sh, "xpU", 2) - 1)),
                 hother |-> View("xpU", 0, All(Shape(sh, "xpU", 1)), Ix(Shape(sh, "xpU", 2) - 2))]
    IN  IF cls = "LinearExtrapWH"
        THEN [cls |-> cls, tol |-> tol, drytol |-> 0,
              v |-> depth @@
                [wc0 |-> View("Q", 0, Sl(ngh_, Shape(sh, "Q", 1) - ngh_), Ix(Shape(sh, "Q", 2) - ngh_ - 1)),
                 wc1 |-> View("Q", 0, Sl(ngh_, Shape(sh, "Q", 1) - ngh_), Ix(Shape(sh, "Q", 2) - ngh_ - 2)),
                 wbci |-> View("xmQ", 0, All(Shape(sh, "xmQ", 1)), Ix(Shape(sh, "xmQ", 2) - 1)),
                 wbco |-> View("xpQ", 0, All(Shape(sh, "xpQ", 1)), Ix(Shape(sh, "xpQ", 2) - 1)),
                 wother |-> View("xpQ", 0, All(Shape(sh, "xpQ", 1)), Ix(Shape(sh, "xpQ", 2) - 2)),
                 hc0 |-> View("U", 0, Sl(ngh_, Shape(sh, "U", 1) - ngh_), Ix(Shape(sh, "U", 2) - ngh_ - 1)),
                 bbc |-> View("Bx", 0, All(Shape(sh, "Bx", 0)), Ix(Shape(sh, "Bx", 1) - 1)),
                 bother |-> View("Bx", 0, All(Shape(sh, "Bx", 0)), Ix(Shape(sh, "Bx", 1) - 2))]]
        ELSE [cls |-> cls, tol |-> 0, drytol |-> drytol,
              v |-> depth @@
                [qbci |-> View("xmQ", comp, All(Shape(sh, "xmQ", 1)), Ix(Shape(sh, "xmQ", 2) - 1)),
                 qbco |-> View("xpQ", comp, All(Shape(sh, "xpQ", 1)), Ix(Shape(sh, "xpQ", 2) - 1)),
                 qother |-> View("xpQ", comp, All(Shape(sh, "xpQ", 1)), Ix(Shape(sh, "xpQ", 2) - 2)),
                 uc0 |-> View("U", comp, Sl(ngh_, Shape(sh, "Q", 1) - ngh_), Ix(Shape(sh, "Q", 2) - ngh_ - 1)),
                 uc1 |-> View("U", comp, Sl(ngh_, Shape(sh, "Q", 1) - ngh_), Ix(Shape(sh, "Q", 2) - ngh_ - 2)),
                 ubci |-> View("xmU", comp, All(Shape(sh, "xmU", 1)), Ix(Shape(sh, "xmU", 2) - 1)),
                 ubco |-> View("xpU", comp, All(Shape(sh, "xpU", 1)), Ix(Shape(sh, "xpU", 2) - 1)),
                 uother |-> View("xpU", comp, All(Shape(sh, "xpU", 1)), Ix(Shape(sh, "xpU", 2) - 2))]]

\* _linear_extrap_bc_set_south of part_000
linear_extrap_bc_set_south(cls, sh, ngh_, comp, tol, drytol) ==
    LET depth == [hbci |-> View("ypU", 0, Ix(0), All(Shape(sh, "ypU", 2))),
                 hbco |-> View("ymU", 0, Ix(0), All(Shape(sh, "ymU", 2))),
                 hother |-> View("ymU", 0, Ix(1), All(Shape(sh, "ymU", 2)))]
    IN  IF cls = "LinearExtrapWH"
        THEN [cls |-> cls, tol |-> tol, drytol |-> 0,
              v |-> depth @@
                [wc0 |-> View("Q", 0, Ix(ngh_), Sl(ngh_, Shape(sh, "Q", 2) - ngh_)),
                 wc1 |-> View("Q", 0, Ix(ngh_ + 1), Sl(ngh_, Shape(sh, "Q", 2) - ngh_)),
                 wbci |-> View("ypQ", 0, Ix(0), All(Shape(sh, "ypQ", 2))),
                 wbco |-> View("ymQ", 0, Ix(0), All(Shape(sh, "ymQ", 2))),
                 wother |-> View("ymQ", 0, Ix(1), All(Shape(sh, "ymQ", 2))),
                 hc0 |-> View("U", 0, Ix(ngh_), Sl(ngh_, Shape(sh, "U", 2) - ngh_)),
                 bbc |-> View("By", 0, Ix(0), All(Shape(sh, "By", 1))),
                 bother |-> View("By", 0, Ix(1), All(Shape(sh, "By", 1)))]]
        ELSE [cls |-> cls, tol |-> 0, drytol |-> drytol,
              v |-> depth @@
                [qbci |-> View("ypQ", comp, Ix(0), All(Shape(sh, "ypQ", 2))),
                 qbco |-> View("ymQ", comp, Ix(0), All(Shape(sh, "ymQ", 2))),
                 qother |-> View("ymQ", comp, Ix(1), All(Shape(sh, "ymQ", 2))),
                 uc0 |-> View("U", comp, Ix(ngh_), Sl(ngh_, Shape(sh, "Q", 2) - ngh_)),
                 uc1 |-> View("U", comp, Ix(ngh_ + 1), Sl(ngh_, Shape(sh, "Q", 2) - ngh_)),
                 ubci |-> View("ypU", comp, Ix(0), All(Shape(sh, "ypU", 2))),
                 ubco |-> View("ymU", comp, Ix(0), All(Shape(sh, "ymU", 2))),
                 uother |-> View("ymU", comp, Ix(1), All(Shape(sh, "ymU", 2)))]]

\* _linear_extrap_bc_set_north of part_000
linear_extrap_bc_set_north(cls, sh, ngh_, comp, tol, drytol) ==
    LET depth == [hbci |-> View("ymU", 0, Ix(Shape(sh, "ymU", 1) - 1), All(Shape(sh, "ymU", 2))),
                 hbco |-> View("ypU", 0, Ix(Shape(sh, "ypU", 1) - 1), All(Shape(sh, "ypU", 2))),
                 hother |-> View("ypU", 0, Ix(Shape(sh, "ypU", 1) - 2), All(Shape(sh, "ypU", 2)))]
    IN  IF cls = "LinearExtrapWH"
        THEN [cls |-> cls, tol |-> tol, drytol |-> 0,
              v |-> depth @@
                [wc0 |-> View("Q", 0, Ix(Shape(sh, "Q", 1) - ngh_ - 1), Sl(ngh_, Shape(sh, "Q", 2) - ngh_)),
                 wc1 |-> View("Q", 0, Ix(Shape(sh, "Q", 1) - ngh_ - 2), Sl(ngh_, Shape(sh, "Q", 2) - ngh_)),
                 wbci |-> View("ymQ", 0, Ix(Shape(sh, "ymQ", 1) - 1), All(Shape(sh, "ymQ", 2))),
                 wbco |-> View("ypQ", 0, Ix(Shape(sh, "ypQ", 1) - 1), All(Shape(sh, "ypQ", 2))),
                 wother |-> View("ypQ", 0, Ix(Shape(sh, "ypQ", 1) - 2), All(Shape(sh, "ypQ", 2))),
                 hc0 |-> View("U", 0, Ix(Shape(sh, "U", 1) - ngh_ - 1), Sl(ngh_, Shape(sh, "U", 2) - ngh_)),
                 bbc |-> View("By", 0, Ix(Shape(sh, "By", 0) - 1), All(Shape(sh, "By", 1))),
                 bother |-> View("By", 0, Ix(Shape(sh, "By", 0) - 2), All(Shape(sh, "By", 1)))]]
        ELSE [cls |-> cls, tol |-> 0, drytol |-> drytol,
              v |-> depth @@
                [qbci |-> View("ymQ", comp, Ix(Shape(sh, "ymQ", 1) - 1), All(Shape(sh, "ymQ", 2))),
                 qbco |-> View("ypQ", comp, Ix(Shape(sh, "ypQ", 1) - 1), All(Shape(sh, "ypQ", 2))),
                 qother |-> View("ypQ", comp, Ix(Shape(sh, "ypQ", 1) - 2), All(Shape(sh, "ypQ", 2))),
                 uc0 |-> View("U", comp, Ix(Shape(sh, "Q", 1) - ngh_ - 1), Sl(ngh_, Shape(sh, "Q", 2) - ngh_)),
                 uc1 |-> View("U", comp, Ix(Shape(sh, "Q", 1) - ngh_ - 2), Sl(ngh_, Shape(sh, "Q", 2) - ngh_)),
                 ubci |-> View("ymU", comp, Ix(Shape(sh, "ymU", 1) - 1), All(Shape(sh, "ymU", 2))),
                 ubco |-> View("ypU", comp, Ix(Shape(sh, "ypU", 1) - 1), All(Shape(sh, "ypU", 2))),
                 uother |-> View("ypU", comp, Ix(Shape(sh, "ypU", 1) - 2), All(Shape(sh, "ypU", 2)))]]

\* _outflow_bc_set_west of cupy_outflow.pyx
outflow_bc_set_west(cls, sh, ngh_, comp, tol, drytol) ==
    LET depth == [hbci |-> View("xpU", 0, All(Shape(sh, "xpU", 1)), Ix(0)),
                 hbco |-> View("xmU", 0, All(Shape(sh, "xmU", 1)), Ix(0)),
                 hother |-> View("xmU", 0, All(Shape(sh, "xmU", 1)), Ix(1))]
    IN  IF cls = "OutflowWH"
        THEN [cls |-> cls, tol |-> tol, drytol |-> 0,
              v |-> depth @@
                [wc0 |-> View("Q", 0, Sl(ngh_, Shape(sh, "Q", 1) - ngh_), Ix(ngh_)),
                 wbci |-> View("xpQ", 0, All(Shape(sh, "xpQ", 1)), Ix(0)),
                 wbco |-> View("xmQ", 0, All(Shape(sh, "xmQ", 1)), Ix(0)),
                 wother |-> View("xmQ", 0, All(Shape(sh, "xmQ", 1)), Ix(1)),
                 hc0 |-> View("U", 0, Sl(ngh_, Shape(sh, "U", 1) - ngh_), Ix(ngh_)),
                 bbc |-> View("Bx", 0, All(Shape(sh, "Bx", 0)), Ix(0)),
                 bother |-> View("Bx", 0, All(Shape(sh, "Bx", 0)), Ix(1))]]
        ELSE [cls |-> cls, tol |-> 0, drytol |-> drytol,
              v |-> depth @@
                [qbci |-> View("xpQ", comp, All(Shape(sh, "xpQ", 1)), Ix(0)),
                 qbco |-> View("xmQ", comp, All(Shape(sh, "xmQ", 1)), Ix(0)),
                 qother |-> View("xmQ", comp, All(Shape(sh, "xmQ", 1)), Ix(1)),
                 uc0 |-> View("U", comp, Sl(ngh_, Shape(sh, "Q", 1) - ngh_), Ix(ngh_)),
                 ubci |-> View("xpU", comp, All(Shape(sh, "xpU", 1)), Ix(0)),
                 ubco |-> View("xmU", comp, All(Shape(sh, "xmU", 1)), Ix(0)),
                 uother |-> View("xmU", comp, All(Shape(sh, "xmU", 1)), Ix(1))]]

\* _outflow_bc_set_east of cupy_outflow.pyx
outflow_bc_set_east(cls, sh, ngh_, comp, tol, drytol) ==
    LET depth == [hbci |-> View("xmU", 0, All(Shape(sh, "xmU", 1)), Ix(Shape(sh, "xmU", 2) - 1)),
                 hbco |-> View("xpU", 0, All(Shape(sh, "xpU", 1)), Ix(Shape(sh, "xpU", 2) - 1)),
                 hother |-> View("xpU", 0, All(Shape(sh, "xpU", 1)), Ix(Shape(sh, "xpU", 2) - 2))]
    IN  IF cls = "OutflowWH"
        THEN [cls |-> cls, tol |-> tol, drytol |-> 0,
              v |-> depth @@
                [wc0 |-> View("Q", 0, Sl(ngh_, Shape(sh, "Q", 1) - ngh_), Ix(Shape(sh, "Q", 2) - ngh_ - 1)),
                 wbci |-> View("xmQ", 0, All(Shape(sh, "xmQ", 1)), Ix(Shape(sh, "xmQ", 2) - 1)),
                 wbco |-> View("xpQ", 0, All(Shape(sh, "xpQ", 1)), Ix(Shape(sh, "xpQ", 2) - 1)),
                 wother |-> View("xpQ", 0, All(Shape(sh, "xpQ", 1)), Ix(Shape(sh, "xpQ", 2) - 2)),
                 hc0 |-> View("U", 0, Sl(ngh_, Shape(sh, "U", 1) - ngh_), Ix(Shape(sh, "U", 2) - ngh_ - 1)),
                 bbc |-> View("Bx", 0, All(Shape(sh, "Bx", 0)), Ix(Shape(sh, "Bx", 1) - 1)),
                 bother |-> View("Bx", 0, All(Shape(sh, "Bx", 0)), Ix(Shape(sh, "Bx", 1) - 2))]]
        ELSE [cls |-> cls, tol |-> 0, drytol |-> drytol,
              v |-> depth @@
                [qbci |-> View("xmQ", comp, All(Shape(sh, "xmQ", 1)), Ix(Shape(sh, "xmQ", 2) - 1)),
                 qbco |-> View("xpQ", comp, All(Shape(sh, "xpQ", 1)), Ix(Shape(sh, "xpQ", 2) - 1)),
                 qother |-> View("xpQ", comp, All(Shape(sh, "xpQ", 1)), Ix(Shape(sh, "xpQ", 2) - 2)),
                 uc0 |-> View("U", comp, Sl(ngh_, Shape(sh, "Q", 1) - ngh_), Ix(Shape(sh, "Q", 2) - ngh_ - 1)),
                 ubci |-> View("xmU", comp, All(Shape(sh, "xmU", 1)), Ix(Shape(sh, "xmU", 2) - 1)),
                 ubco |-> View("xpU", comp, All(Shape(sh, "xpU", 1)), Ix(Shape(sh, "xpU", 2) - 1)),
                 uother |-> View("xpU", comp, All(Shape(sh, "xpU", 1)), Ix(Shape(sh, "xpU", 2) - 2))]]

\* a south binding that takes the west edge's views
Mut_outflow_bc_set_south(cls, sh, ngh_, comp, tol, drytol) ==
    outflow_bc_set_west(cls, sh, ngh_, comp, tol, drytol)

\* _outflow_bc_set_south of cupy_outflow.pyx
outflow_bc_set_south(cls, sh, ngh_, comp, tol, drytol) ==
    LET depth == [hbci |-> View("ypU", 0, Ix(0), All(Shape(sh, "ypU", 2))),
                 hbco |-> View("ymU", 0, Ix(0), All(Shape(sh, "ymU", 2))),
                 hother |-> View("ymU", 0, Ix(1), All(Shape(sh, "ymU", 2)))]
    IN  IF cls = "OutflowWH"
        THEN [cls |-> cls, tol |-> tol, drytol |-> 0,
              v |-> depth @@
                [wc0 |-> View("Q", 0, Ix(ngh_), Sl(ngh_, Shape(sh, "Q", 2) - ngh_)),
                 wbci |-> View("ypQ", 0, Ix(0), All(Shape(sh, "ypQ", 2))),
                 wbco |-> View("ymQ", 0, Ix(0), All(Shape(sh, "ymQ", 2))),
                 wother |-> View("ymQ", 0, Ix(1), All(Shape(sh, "ymQ", 2))),
                 hc0 |-> View("U", 0, Ix(ngh_), Sl(ngh_, Shape(sh, "U", 2) - ngh_)),
                 bbc |-> View("By", 0, Ix(0), All(Shape(sh, "By", 1))),
                 bother |-> View("By", 0, Ix(1), All(Shape(sh, "By", 1)))]]
        ELSE [cls |-> cls, tol |-> 0, drytol |-> drytol,
              v |-> depth @@
                [qbci |-> View("ypQ", comp, Ix(0), All(Shape(sh, "ypQ", 2))),
                 qbco |-> View("ymQ", comp, Ix(0), All(Shape(sh, "ymQ", 2))),
                 qother |-> View("ymQ", comp, Ix(1), All(Shape(sh, "ymQ", 2))),
                 uc0 |-> View("U", comp, Ix(ngh_), Sl(ngh_, Shape(sh, "Q", 2) - ngh_)),
                 ubci |-> View("ypU", comp, Ix(0), All(Shape(sh, "ypU", 2))),
                 ubco |-> View("ymU", comp, Ix(0), All(Shape(sh, "ymU", 2))),
                 uother |-> View("ymU", comp, Ix(1), All(Shape(sh, "ymU", 2)))]]

\* _outflow_bc_set_north of cupy_outflow.pyx
outflow_bc_set_north(cls, sh, ngh_, comp, tol, drytol) ==
    LET depth == [hbci |-> View("ymU", 0, Ix(Shape(sh, "ymU", 1) - 1), All(Shape(sh, "ymU", 2))),
                 hbco |-> View("ypU", 0, Ix(Shape(sh, "ypU", 1) - 1), All(Shape(sh, "ypU", 2))),
                 hother |-> View("ypU", 0, Ix(Shape(sh, "ypU", 1) - 2), All(Shape(sh, "ypU", 2)))]
    IN  IF cls = "OutflowWH"
        THEN [cls |-> cls, tol |-> tol, drytol |-> 0,
              v |-> depth @@
                [wc0 |-> View("Q", 0, Ix(Shape(sh, "Q", 1) - ngh_ - 1), Sl(ngh_, Shape(sh, "Q", 2) - ngh_)),
                 wbci |-> View("ymQ", 0, Ix(Shape(sh, "ymQ", 1) - 1), All(Shape(sh, "ymQ", 2))),
                 wbco |-> View("ypQ", 0, Ix(Shape(sh, "ypQ", 1) - 1), All(Shape(sh, "ypQ", 2))),
                 wother |-> View("ypQ", 0, Ix(Shape(sh, "ypQ", 1) - 2), All(Shape(sh, "ypQ", 2))),
                 hc0 |-> View("U", 0, Ix(Shape(sh, "U", 1) - ngh_ - 1), Sl(ngh_, Shape(sh, "U", 2) - ngh_)),
                 bbc |-> View("By", 0, Ix(Shape(sh, "By", 0) - 1), All(Shape(sh, "By", 1))),
                 bother |-> View("By", 0, Ix(Shape(sh, "By", 0) - 2), All(Shape(sh, "By", 1)))]]
        ELSE [cls |-> cls, tol |-> 0, drytol |-> drytol,
              v |-> depth @@
                [qbci |-> View("ymQ", comp, Ix(Shape(sh, "ymQ", 1) - 1), All(Shape(sh, "ymQ", 2))),
                 qbco |-> View("ypQ", comp, Ix(Shape(sh, "ypQ", 1) - 1), All(Shape(sh, "ypQ", 2))),
                 qother |-> View("ypQ", comp, Ix(Shape(sh, "ypQ", 1) - 2), All(Shape(sh, "ypQ", 2))),
                 uc0 |-> View("U", comp, Ix(Shape(sh, "Q", 1) - ngh_ - 1), Sl(ngh_, Shape(sh, "Q", 2) - ngh_)),
                 ubci |-> View("ymU", comp, Ix(Shape(sh, "ymU", 1) - 1), All(Shape(sh, "ymU", 2))),
                 ubco |-> View("ypU", comp, Ix(Shape(sh, "ypU", 1) - 1), All(Shape(sh, "ypU", 2))),
                 uother |-> View("ypU", comp, Ix(Shape(sh, "ypU", 1) - 2), All(Shape(sh, "ypU", 2)))]]

\* _linear_extrap_bc_set_west of cupy_linear_extrap.pyx
q_linear_extrap_bc_set_west(sh, ngh_, comp) ==
    LET bound == [qc0 |-> View("Q", comp, Sl(ngh_, Shape(sh, "Q", 1) - ngh_), Ix(ngh_)),
                 qc1 |-> View("Q", comp, Sl(ngh_, Shape(sh, "Q", 1) - ngh_), Ix(ngh_ + 1)),
                 qbci |-> View("xpQ", comp, All(Shape(sh, "xpQ", 1)), Ix(0)),
                 qbco |-> View("xmQ", comp, All(Shape(sh, "xmQ", 1)), Ix(0)),
                 qother |-> View("xmQ", comp, All(Shape(sh, "xmQ", 1)), Ix(1)),
                 hbci |-> View("xpU", 0, All(Shape(sh, "xpU", 1)), Ix(0)),
                 hbco |-> View("xmU", 0, All(Shape(sh, "xmU", 1)), Ix(0)),
                 hother |-> View("xmU", 0, All(Shape(sh, "xmU", 1)), Ix(1)),
                 bbc |-> View("Bx", 0, All(Shape(sh, "Bx", 0)), Ix(0)),
                 bother |-> View("Bx", 0, All(Shape(sh, "Bx", 0)), Ix(1))]
    IN  IF comp # 0
        THEN bound @@
                [ubci |-> View("xpU", comp, All(Shape(sh, "xpU", 1)), Ix(0)),
                 ubco |-> View("xmU", comp, All(Shape(sh, "xmU", 1)), Ix(0)),
                 uother |-> View("xmU", comp, All(Shape(sh, "xmU", 1)), Ix(1))]
        ELSE bound @@
                [ubci |-> NoView,
                 ubco |-> NoView,
                 uother |-> NoView]

\* _linear_extrap_bc_set_east of cupy_linear_extrap.pyx
q_linear_extrap_bc_set_east(sh, ngh_, comp) ==
    LET bound == [qc0 |-> View("Q", comp, Sl(ngh_, Shape(sh, "Q", 1) - ngh_), Ix(Shape(sh, "Q", 2) - ngh_ - 1)),
                 qc1 |-> View("Q", comp, Sl(ngh_, Shape(sh, "Q", 1) - ngh_), Ix(Shape(sh, "Q", 2) - ngh_ - 2)),
                 qbci |-> View("xmQ", comp, All(Shape(sh, "xmQ", 1)), Ix(Shape(sh, "xmQ", 2) - 1)),
                 qbco |-> View("xpQ", comp, All(Shape(sh, "xpQ", 1)), Ix(Shape(sh, "xpQ", 2) - 1)),
                 qother |-> View("xpQ", comp, All(Shape(sh, "xpQ", 1)), Ix(Shape(sh, "xpQ", 2) - 2)),
                 hbci |-> View("xmU", 0, All(Shape(sh, "xmU", 1)), Ix(Shape(sh, "xmU", 2) - 1)),
                 hbco |-> View("xpU", 0, All(Shape(sh, "xpU", 1)), Ix(Shape(sh, "xpU", 2) - 1)),
                 hother |-> View("xpU", 0, All(Shape(sh, "xpU", 1)), Ix(Shape(sh, "xpU", 2) - 2)),
                 bbc |-> View("Bx", 0, All(Shape(sh, "Bx", 0)), Ix(Shape(sh, "Bx", 1) - 1)),
                 bother |-> View("Bx", 0, All(Shape(sh, "Bx", 0)), Ix(Shape(sh, "Bx", 1) - 2))]
    IN  IF comp # 0
        THEN bound @@
                [ubci |-> View("xmU", comp, All(Shape(sh, "xmU", 1)), Ix(Shape(sh, "xmU", 2) - 1)),
                 ubco |-> View("xpU", comp, All(Shape(sh, "xpU", 1)), Ix(Shape(sh, "xpU", 2) - 1)),
                 uother |-> View("xpU", comp, All(Shape(sh, "xpU", 1)), Ix(Shape(sh, "xpU", 2) - 2))]
        ELSE bound @@
                [ubci |-> NoView,
                 ubco |-> NoView,
                 uother |-> NoView]

\* _linear_extrap_bc_set_south of cupy_linear_extrap.pyx
q_linear_extrap_bc_set_south(sh, ngh_, comp) ==
    LET bound == [qc0 |-> View("Q", comp, Ix(ngh_), Sl(ngh_, Shape(sh, "Q", 2) - ngh_)),
                 qc1 |-> View("Q", comp, Ix(ngh_ + 1), Sl(ngh_, Shape(sh, "Q", 2) - ngh_)),
                 qbci |-> View("ypQ", comp, Ix(0), All(Shape(sh, "ypQ", 2))),
                 qbco |-> View("ymQ", comp, Ix(0), All(Shape(sh, "ymQ", 2))),
                 qother |-> View("ymQ", comp, Ix(1), All(Shape(sh, "ymQ", 2))),
                 hbci |-> View("ypU", 0, Ix(0), All(Shape(sh, "ypU", 2))),
                 hbco |-> View("ymU", 0, Ix(0), All(Shape(sh, "ymU", 2))),
                 hother |-> View("ymU", 0, Ix(1), All(Shape(sh, "ymU", 2))),
                 bbc |-> View("By", 0, Ix(0), All(Shape(sh, "By", 1))),
                 bother |-> View("By", 0, Ix(1), All(Shape(sh, "By", 1)))]
    IN  IF comp # 0
        THEN bound @@
                [ubci |-> View("ypU", comp, Ix(0), All(Shape(sh, "ypU", 2))),
                 ubco |-> View("ymU", comp, Ix(0), All(Shape(sh, "ymU", 2))),
                 uother |-> View("ymU", comp, Ix(1), All(Shape(sh, "ymU", 2)))]
        ELSE bound @@
                [ubci |-> NoView,
                 ubco |-> NoView,
                 uother |-> NoView]

\* _linear_extrap_bc_set_north of cupy_linear_extrap.pyx
q_linear_extrap_bc_set_north(sh, ngh_, comp) ==
    LET bound == [qc0 |-> View("Q", comp, Ix(Shape(sh, "Q", 1) - ngh_ - 1), Sl(ngh_, Shape(sh, "Q", 2) - ngh_)),
                 qc1 |-> View("Q", comp, Ix(Shape(sh, "Q", 1) - ngh_ - 2), Sl(ngh_, Shape(sh, "Q", 2) - ngh_)),
                 qbci |-> View("ymQ", comp, Ix(Shape(sh, "ymQ", 1) - 1), All(Shape(sh, "ymQ", 2))),
                 qbco |-> View("ypQ", comp, Ix(Shape(sh, "ypQ", 1) - 1), All(Shape(sh, "ypQ", 2))),
                 qother |-> View("ypQ", comp, Ix(Shape(sh, "ypQ", 1) - 2), All(Shape(sh, "ypQ", 2))),
                 hbci |-> View("ymU", 0, Ix(Shape(sh, "ymU", 1) - 1), All(Shape(sh, "ymU", 2))),
                 hbco |-> View("ypU", 0, Ix(Shape(sh, "ypU", 1) - 1), All(Shape(sh, "ypU", 2))),
                 hother |-> View("ypU", 0, Ix(Shape(sh, "ypU", 1) - 2), All(Shape(sh, "ypU", 2))),
                 bbc |-> View("By", 0, Ix(Shape(sh, "By", 0) - 1), All(Shape(sh, "By", 1))),
                 bother |-> View("By", 0, Ix(Shape(sh, "By", 0) - 2), All(Shape(sh, "By", 1)))]
    IN  IF comp # 0
        THEN bound @@
                [ubci |-> View("ymU", comp, Ix(Shape(sh, "ymU", 1) - 1), All(Shape(sh, "ymU", 2))),
                 ubco |-> View("ypU", comp, Ix(Shape(sh, "ypU", 1) - 1), All(Shape(sh, "ypU", 2))),
                 uother |-> View("ypU", comp, Ix(Shape(sh, "ypU", 1) - 2), All(Shape(sh, "ypU", 2)))]
        ELSE bound @@
                [ubci |-> NoView,
                 ubco |-> NoView,
                 uother |-> NoView]

----------------------------------------------------------------------------
(* The factories.  An argument is a Python object: an int or a str.  A     *)
(* call ends in a raised exception or in a returned unit.                  *)

\* bound of the numeric edge ids and components tried: -1 .. MaxArg
MaxArg == 4

IntArg(i) == [t |-> "int", i |-> i, s |-> ""]
StrArg(s) == [t |-> "str", i |-> 0, s |-> s]

Raise(exc) == [exc |-> exc, val |-> 0]
Value(x) == [exc |-> "", val |-> x]

\* a Python object passed for a "const unsigned" parameter
to_unsigned(x) ==
    IF x.t = "str" THEN Raise("TypeError")
    ELSE IF x.i < 0 THEN Raise("OverflowError")
    ELSE Value(x.i)

\* "if isinstance(ornt, str): ..." of the three factories (the same text in each)
edge_alias(ornt) ==
    IF ornt.t = "str"
    THEN IF ornt.s \in {"w", "west"} THEN IntArg(0)
         ELSE IF ornt.s \in {"e", "east"} THEN IntArg(1)
         ELSE IF ornt.s \in {"s", "south"} THEN IntArg(2)
         ELSE IF ornt.s \in {"n", "north"} THEN IntArg(3)
         ELSE ornt
    ELSE ornt

\* the attributes of each class
DepthSlots == {"hbci", "hbco", "hother"}
Slots(cls) ==
    CASE cls = "LinearExtrapWH" ->
            DepthSlots \cup {"wc0", "wc1", "wbci", "wbco", "wother", "hc0", "bbc", "bother"}
      [] cls = "LinearExtrapOther" ->
            DepthSlots \cup {"qbci", "qbco", "qother", "uc0", "uc1", "ubci", "ubco", "uother"}
      [] cls = "OutflowWH" ->
            DepthSlots \cup {"wc0", "wbci", "wbco", "wother", "hc0", "bbc", "bother"}
      [] cls = "OutflowOther" ->
            DepthSlots \cup {"qbci", "qbco", "qother", "uc0", "ubci", "ubco", "uother"}
      [] OTHER ->
            DepthSlots \cup {"qc0", "qc1", "qbci", "qbco", "qother", "bbc", "bother",
                             "ubci", "ubco", "uother"}

\* a freshly allocated unit: every attribute None, every double 0.0
Unbound(cls) ==
    [cls |-> cls, tol |-> 0, drytol |-> 0, v |-> [s \in Slots(cls) |-> NoView]]

\* _shape_checker of cupy_linear_extrap.pyx: the first assertion that fails
q_shape_checker(sh, ngh_, comp, ornt) ==
    LET face_ok(A, d1, d2) ==
            /\ Shape(sh, A, 0) = 3
            /\ Shape(sh, A, 1) = Shape(sh, "Q", 1) - 2 * ngh_ + d1
            /\ Shape(sh, A, 2) = Shape(sh, "Q", 2) - 2 * ngh_ + d2
    IN  IF /\ ngh_ = 2
           /\ 0 <= comp /\ comp <= 2
           /\ 0 <= ornt /\ ornt <= 3
           /\ Shape(sh, "Q", 0) = 3
           /\ face_ok("xmQ", 0, 1) /\ face_ok("xpQ", 0, 1)
           /\ face_ok("ymQ", 1, 0) /\ face_ok("ypQ", 1, 0)
           /\ face_ok("xmU", 0, 1) /\ face_ok("xpU", 0, 1)
           /\ face_ok("ymU", 1, 0) /\ face_ok("ypU", 1, 0)
        THEN Raise("") ELSE Raise("AssertionError")

\* _checker.shape_checker, which the hc0-based linear and the outflow module
\* cimport: the checks of the Shape Validator
shape_checker(sh, ngh_, comp, ornt) ==
    LET face_ok(A, d1, d2) ==
            /\ Shape(sh, A, 1) = Shape(sh, "Q", 1) - 2 * ngh_ + d1
            /\ Shape(sh, A, 2) = Shape(sh, "Q", 2) - 2 * ngh_ + d2
    IN  IF /\ ngh_ = 2
           /\ comp \in 0..2
           /\ ornt \in 0..3
           /\ Shape(sh, "Q", 0) = 3
           /\ face_ok("xmQ", 0, 1) /\ face_ok("xpQ", 0, 1)
           /\ face_ok("ymQ", 1, 0) /\ face_ok("ypQ", 1, 0)
           /\ face_ok("xmU", 0, 1) /\ face_ok("xpU", 0, 1)
           /\ face_ok("ymU", 1, 0) /\ face_ok("ypU", 1, 0)
        THEN Raise("") ELSE Raise("AssertionError")

\* what a cdef function hands to its caller: the exception it ended in, if
\* any, and the unit as it left it
Ended(exc, bc) == [exc |-> exc, bc |-> bc]

\* _linear_extrap_bc_factory[cls]
linear_extrap_bc_factory_(cls, sh, ngh_, comp, ornt, tol, drytol) ==
    LET bc == Unbound(cls)
        chk == shape_checker(sh, ngh_, comp, ornt)
    IN  IF chk.exc # "" THEN Ended(chk.exc, bc)
        ELSE IF ornt = 0 THEN
            Ended("", linear_extrap_bc_set_west(cls, sh, ngh_, comp, tol, drytol))
        ELSE IF ornt = 1 THEN
            Ended("", linear_extrap_bc_set_east(cls, sh, ngh_, comp, tol, drytol))
        ELSE IF ornt = 2 THEN
            Ended("", linear_extrap_bc_set_south(cls, sh, ngh_, comp, tol, drytol))
        ELSE IF ornt = 3 THEN
            Ended("", linear_extrap_bc_set_north(cls, sh, ngh_, comp, tol, drytol))
        ELSE Ended("ValueError", bc)

\* _outflow_bc_factory[cls]
outflow_bc_factory_(cls, sh, ngh_, comp, ornt, tol, drytol) ==
    LET bc == Unbound(cls)
        chk == shape_checker(sh, ngh_, comp, ornt)
    IN  IF chk.exc # "" THEN Ended(chk.exc, bc)
        ELSE IF ornt = 0 THEN
            Ended("", outflow_bc_set_west(cls, sh, ngh_, comp, tol, drytol))
        ELSE IF ornt = 1 THEN
            Ended("", outflow_bc_set_east(cls, sh, ngh_, comp, tol, drytol))
        ELSE IF ornt = 2 THEN
            Ended("", outflow_bc_set_south(cls, sh, ngh_, comp, tol, drytol))
        ELSE IF ornt = 3 THEN
            Ended("", outflow_bc_set_north(cls, sh, ngh_, comp, tol, drytol))
        ELSE Ended("ValueError", bc)

\* The call of a "cdef void" function declared without an except clause, as
\* _linear_extrap_bc_factory and _outflow_bc_factory are.  Up to Cython 0.29
\* an exception raised in such a function is printed and ignored and the
\* function returns; from Cython 3 it propagates.
call_cdef_void(r, bld) ==
    IF r.exc # "" /\ bld = "cython0" THEN Ended("", r.bc) ELSE r

\* no unit at all
NoUnit == [cls |-> "None", tol |-> 0, drytol |-> 0, v |-> <<>>]

\* what a factory hands back
Raised(exc) == [kind |-> "raise", exc |-> exc, bc |-> NoUnit]
Returned(bc) == [kind |-> "unit", exc |-> "", bc |-> bc]

\* linear_extrap_bc_factory of the hc0-based linear scheme
linear_extrap_bc_factory(ornt, comp, sh, ngh_, tol, drytol, bld) ==
    LET o == edge_alias(ornt)
        cls == IF comp = 0 THEN "LinearExtrapWH" ELSE "LinearExtrapOther"
    IN  IF comp \in {0, 1, 2}
        THEN IF to_unsigned(o).exc # "" THEN Raised(to_unsigned(o).exc)
             ELSE LET r == call_cdef_void(
                               linear_extrap_bc_factory_(
                                   cls, sh, ngh_, comp, to_unsigned(o).val, tol, drytol),
                               bld)
                  IN  IF r.exc # "" THEN Raised(r.exc) ELSE Returned(r.bc)
        ELSE Raised("ValueError")

\* outflow_bc_factory
outflow_bc_factory(ornt, comp, sh, ngh_, tol, drytol, bld) ==
    LET o == edge_alias(ornt)
        cls == IF comp = 0 THEN "OutflowWH" ELSE "OutflowOther"
    IN  IF comp \in {0, 1, 2}
        THEN IF to_unsigned(o).exc # "" THEN Raised(to_unsigned(o).exc)
             ELSE LET r == call_cdef_void(
                               outflow_bc_factory_(
                                   cls, sh, ngh_, comp, to_unsigned(o).val, tol, drytol),
                               bld)
                  IN  IF r.exc # "" THEN Raised(r.exc) ELSE Returned(r.bc)
        ELSE Raised("ValueError")

\* LinearExtrapBC.__init__ of cupy_linear_extrap.pyx, a def method: its
\* exceptions propagate
LinearExtrapBC_init(cls, sh, ngh_, comp, ornt, tol, drytol) ==
    LET chk == q_shape_checker(sh, ngh_, comp, ornt)
        bound(v) == Ended("", [cls |-> cls, tol |-> tol, drytol |-> drytol, v |-> v])
    IN  IF chk.exc # "" THEN Ended(chk.exc, Unbound(cls))
        ELSE IF ornt = 0 THEN bound(q_linear_extrap_bc_set_west(sh, ngh_, comp))
        ELSE IF ornt = 1 THEN bound(q_linear_extrap_bc_set_east(sh, ngh_, comp))
        ELSE IF ornt = 2 THEN bound(q_linear_extrap_bc_set_south(sh, ngh_, comp))
        ELSE IF ornt = 3 THEN bound(q_linear_extrap_bc_set_north(sh, ngh_, comp))
        ELSE Ended("ValueError", Unbound(cls))

\* linear_extrap_factory of cupy_linear_extrap.pyx
linear_extrap_factory(ornt, comp, sh, ngh_, tol, drytol) ==
    LET o == edge_alias(ornt)
        cls == IF comp = 0 THEN "cupy_linear_extrap.LinearExtrapWH"
                           ELSE "cupy_linear_extrap.LinearExtrapOther"
    IN  IF comp \in {0, 1, 2}
        THEN IF to_unsigned(o).exc # "" THEN Raised(to_unsigned(o).exc)
             ELSE LET r == LinearExtrapBC_init(
                               cls, sh, ngh_, comp, to_unsigned(o).val, tol, drytol)
                  IN  IF r.exc # "" THEN Raised(r.exc) ELSE Returned(r.bc)
        ELSE Raised("ValueError")

\* the three factories by name
Factories == {"linear_extrap_bc_factory", "outflow_bc_factory", "linear_extrap_factory"}

CallFactory(f, ornt, comp, sh, ngh_, tol, drytol, bld) ==
    CASE f = "linear_extrap_bc_factory" ->
            linear_extrap_bc_factory(ornt, comp, sh, ngh_, tol, drytol, bld)
      [] f = "outflow_bc_factory" ->
            outflow_bc_factory(ornt, comp, sh, ngh_, tol, drytol, bld)
      [] OTHER ->
            linear_extrap_factory(ornt, comp, sh, ngh_, tol, drytol)

----------------------------------------------------------------------------
(* Factory-level specification: a domain state of some shape and ghost     *)
(* count, a build, and factory calls with arguments of every kind.         *)

EdgeNames == {"w", "west", "e", "east", "s", "south", "n", "north"}

OrntInputs == { IntArg(i) : i \in -1..MaxArg }
                \cup { StrArg(s) : s \in EdgeNames \cup {"West", "x"} }

CompInputs == -1..MaxArg

\* tol and drytol of the configuration, drytol >= tol
Tolerances == { t \in NumRange(0, MaxTol) \X NumRange(0, MaxTol + 1) : t[1] <= t[2] }

NoArgs == [factory |-> "none", ornt |-> IntArg(0), comp |-> 0, tol |-> 0, drytol |-> 0]
NoRet == [kind |-> "none", exc |-> "", bc |-> NoUnit]

FInit ==
    /\ ngh \in 1..MaxNgh
    /\ \E NX \in 1..MaxN, NY \in 1..MaxN : shape = Shapes(NX, NY, ngh)
    /\ build \in {"cython0", "cython3"}
    /\ args = NoArgs
    /\ ret = NoRet
    /\ kin = [grp |-> "none"]
    /\ kout = [kernel |-> "none"]
    /\ bcs = <<>>
    /\ mem = <<>>
    /\ profile = 0
    /\ last = <<-1, -1>>
    /\ twice = FALSE
    /\ fresh = {}
    /\ intact = {}
    /\ steps = 0

\* One call of factory f.  A factory keeps nothing between calls, so a
\* behaviour makes one call: every call is the first call of some behaviour.
Factory(f) ==
    \E ornt \in OrntInputs, comp \in CompInputs, t \in Tolerances :
        /\ args.factory = "none"
        /\ args' = [factory |-> f, ornt |-> ornt, comp |-> comp,
                    tol |-> t[1], drytol |-> t[2]]
        /\ ret' = CallFactory(f, ornt, comp, shape, ngh, t[1], t[2], build)
        /\ UNCHANGED <<ngh, shape, build, kvars, rvars>>

LinearExtrapBcFactory ==
    /\ args.factory = "none"
    /\ Factory("linear_extrap_bc_factory")

OutflowBcFactory ==
    /\ args.factory = "none"
    /\ Factory("outflow_bc_factory")

LinearExtrapFactory ==
    /\ args.factory = "none"
    /\ Factory("linear_extrap_factory")

FNext == LinearExtrapBcFactory \/ OutflowBcFactory \/ LinearExtrapFactory

FactorySpec == FInit /\ [][FNext]_vars

----------------------------------------------------------------------------
(* Element-level specification: one input tuple is drawn from the bounded  *)
(* sets, and the kernels of its variable group are applied to it.          *)

NoOut == [wbci |-> 0, wbco |-> 0, wother |-> 0, hbci |-> 0, hbco |-> 0, hother |-> 0,
          qbci |-> 0, qbco |-> 0, qother |-> 0, ubci |-> 0, ubco |-> 0, uother |-> 0]

WHInputs ==
    [grp : {"wh"},
     wc0 : NumRange(-1, MaxW), wc1 : NumRange(-1, MaxW), hc0 : NumRange(-1, MaxH),
     bbc : NumRange(-1, MaxB), bother : NumRange(-1, MaxB), tol : NumRange(-1, MaxTol),
     uc0 : {0}, uc1 : {0}, hbci : {0}, hbco : {0}, hother : {0}, drytol : {0}]

OtherInputs ==
    [grp : {"other"},
     wc0 : {0}, wc1 : {0}, hc0 : {0}, bbc : {0}, bother : {0}, tol : {0},
     uc0 : NumRange(-1, MaxVel), uc1 : NumRange(-1, MaxVel),
     hbci : NumRange(-1, MaxH), hbco : NumRange(-1, MaxH), hother : NumRange(-1, MaxH),
     drytol : NumRange(-1, MaxTol + 1)]

KInit ==
    /\ kin \in WHInputs \cup OtherInputs
    /\ kout = [kernel |-> "none", out |-> NoOut]
    /\ ngh = 2
    /\ shape = Shapes(1, 1, 2)
    /\ build = "cython3"
    /\ args = NoArgs
    /\ ret = NoRet
    /\ bcs = <<>>
    /\ mem = <<>>
    /\ profile = 0
    /\ last = <<-1, -1>>
    /\ twice = FALSE
    /\ fresh = {}
    /\ intact = {}
    /\ steps = 0

\* the six values a depth kernel wrote, the velocity slots untouched
WHOut(o) == [NoOut EXCEPT !.wbci = o.wbci, !.wbco = o.wbco, !.wother = o.wother,
                          !.hbci = o.hbci, !.hbco = o.hbco, !.hother = o.hother]

\* the six values a velocity kernel wrote; the depths are its inputs
OtherOut(o) == [NoOut EXCEPT !.qbci = o.qbci, !.qbco = o.qbco, !.qother = o.qother,
                             !.ubci = o.ubci, !.ubco = o.ubco, !.uother = o.uother,
                             !.hbci = kin.hbci, !.hbco = kin.hbco, !.hother = kin.hother]

KLinearWH ==
    /\ kin.grp = "wh"
    /\ kout' = [kernel |-> "linear_wh",
                out |-> WHOut(linear_extrap_bc_w_h_kernel(
                            kin.wc0, kin.wc1, kin.hc0, kin.bbc, kin.bother, kin.tol))]
    /\ UNCHANGED <<kin, fvars, rvars>>

KOutflowWH ==
    /\ kin.grp = "wh"
    /\ kout' = [kernel |-> "outflow_wh",
                out |-> WHOut(outflow_bc_w_h_kernel(
                            kin.wc0, kin.hc0, kin.bbc, kin.bother, kin.tol))]
    /\ UNCHANGED <<kin, fvars, rvars>>

KQLinearWH ==
    /\ kin.grp = "wh"
    /\ kout' = [kernel |-> "q_linear_wh",
                out |-> WHOut(q_linear_extrap_bc_w_h_kernel(
                            kin.wc0, kin.wc1, kin.bbc, kin.bother, kin.tol))]
    /\ UNCHANGED <<kin, fvars, rvars>>

KLinearOther ==
    /\ kin.grp = "other"
    /\ kout' = [kernel |-> "linear_other",
                out |-> OtherOut(linear_extrap_bc_kernel(
                            kin.uc0, kin.uc1, kin.hbci, kin.hbco, kin.hother, kin.drytol))]
    /\ UNCHANGED <<kin, fvars, rvars>>

KOutflowOther ==
    /\ kin.grp = "other"
    /\ kout' = [kernel |-> "outflow_other",
                out |-> OtherOut(outflow_bc_kernel(
                            kin.uc0, kin.hbci, kin.hbco, kin.hother, kin.drytol))]
    /\ UNCHANGED <<kin, fvars, rvars>>

\* the Q-based velocity kernel takes the momenta of the two cell layers where
\* the U-based kernels take the velocities: kin.uc0, kin.uc1 are its qc0, qc1
KQLinearOther ==
    /\ kin.grp = "other"
    /\ kout' = [kernel |-> "q_linear_other",
                out |-> OtherOut(q_linear_extrap_bc_kernel(
                            kin.uc0, kin.uc1, kin.hbci, kin.hbco, kin.hother, kin.drytol))]
    /\ UNCHANGED <<kin, fvars, rvars>>

KNext ==
    \/ KLinearWH \/ KOutflowWH \/ KQLinearWH
    \/ KLinearOther \/ KOutflowOther \/ KQLinearOther

KernelSpec == KInit /\ [][KNext]_vars

----------------------------------------------------------------------------
(* Invocation.  The memory maps each array to its elements, indexed by     *)
(* <<component, row, column>>.  Invoking a unit reads its bound views      *)
(* element by element, applies its kernel and writes the six output views. *)

\* bounds of the runs: the interior states 0 .. MaxProfile the solver moves
\* between, and the number of steps of a run
MaxProfile == 1
MaxSteps == 3

Indices(sh, A) ==
    IF A \in {"Bx", "By"}
    THEN {0} \X (0..(Shape(sh, A, 0) - 1)) \X (0..(Shape(sh, A, 1) - 1))
    ELSE (0..(Shape(sh, A, 0) - 1)) \X (0..(Shape(sh, A, 1) - 1))
             \X (0..(Shape(sh, A, 2) - 1))

\* number of elements of a view, and the index of its i-th element (i from 0)
Size(w) == IF w.r0 = w.r1 THEN w.c1 - w.c0 + 1 ELSE w.r1 - w.r0 + 1
At(w, i) == IF w.r0 = w.r1 THEN <<w.comp, w.r0, w.c0 + i>> ELSE <<w.comp, w.r0 + i, w.c0>>
Get(m, w, i) == m[w.buf][At(w, i)]

\* whether element x of array A belongs to view w, and where
Covers(w, A, x) ==
    /\ w.buf = A /\ w.comp = x[1]
    /\ w.r0 <= x[2] /\ x[2] <= w.r1
    /\ w.c0 <= x[3] /\ x[3] <= w.c1
IndexIn(w, x) == IF w.r0 = w.r1 THEN x[3] - w.c0 ELSE x[2] - w.r0

\* the six values the kernel of unit bc writes for element i
KernelOf(bc, m, i) ==
    LET g(s) == Get(m, bc.v[s], i)
    IN  CASE bc.cls = "LinearExtrapWH" ->
                linear_extrap_bc_w_h_kernel(
                    g("wc0"), g("wc1"), g("hc0"), g("bbc"), g("bother"), bc.tol)
          [] bc.cls = "OutflowWH" ->
                outflow_bc_w_h_kernel(g("wc0"), g("hc0"), g("bbc"), g("bother"), bc.tol)
          [] bc.cls = "LinearExtrapOther" ->
                linear_extrap_bc_kernel(
                    g("uc0"), g("uc1"), g("hbci"), g("hbco"), g("hother"), bc.drytol)
          [] bc.cls = "OutflowOther" ->
                outflow_bc_kernel(
                    g("uc0"), g("hbci"), g("hbco"), g("hother"), bc.drytol)
          [] bc.cls = "cupy_linear_extrap.LinearExtrapWH" ->
                LET o == q_linear_extrap_bc_w_h_kernel(
                             g("qc0"), g("qc1"), g("bbc"), g("bother"), bc.tol)
                IN  [qbci |-> o.wbci, qbco |-> o.wbco, qother |-> o.wother,
                     hbci |-> o.hbci, hbco |-> o.hbco, hother |-> o.hother]
          [] bc.cls = "cupy_linear_extrap.LinearExtrapOther" ->
                q_linear_extrap_bc_kernel(
                    g("qc0"), g("qc1"), g("hbci"), g("hbco"), g("hother"), bc.drytol)

\* the output views of a unit: the slots its kernel writes
OutSlots(bc) ==
    IF bc.cls \in {"LinearExtrapWH", "OutflowWH"}
    THEN {"wbci", "wbco", "wother", "hbci", "hbco", "hother"}
    ELSE IF bc.cls = "cupy_linear_extrap.LinearExtrapWH"
    THEN {"qbci", "qbco", "qother", "hbci", "hbco", "hother"}
    ELSE {"qbci", "qbco", "qother", "ubci", "ubco", "uother"}

\* the assignment of a kernel output to its element
Store(old, new) == new

\* __call__ of a unit: the memory after the elementwise kernel has run.
\* Only the arrays that hold an output view change.
Invoke(bc, m) ==
    LET touched == { bc.v[s].buf : s \in OutSlots(bc) }
    IN  [A \in DOMAIN m |->
            IF A \in touched
            THEN [x \in DOMAIN m[A] |->
                    IF \E s \in OutSlots(bc) : Covers(bc.v[s], A, x)
                    THEN LET s == CHOOSE t \in OutSlots(bc) : Covers(bc.v[t], A, x)
                         IN  Store(m[A][x], KernelOf(bc, m, IndexIn(bc.v[s], x))[s])
                    ELSE m[A][x]]
            ELSE m[A]]

----------------------------------------------------------------------------
(* Run-level specification: a domain state, the twelve units of one scheme *)
(* (four edges, three variable groups) built by its factory, and a run in  *)
(* which the units are invoked in any order while the solver moves the     *)
(* interior state.                                                         *)

\* the interior state and the bed the run starts from or the solver moves to:
\* whole-number fields over the grid
CellField(p, k, x) ==
    CASE k = "w" -> Num((x[2] + 2 * x[3] + p) % 4)
      [] k = "h" -> Num((2 * x[2] + x[3] + p) % 3)
      [] k = "u" -> Num(((x[2] + x[3] + p) % 3) - 1)
      [] k = "v" -> Num(((x[2] + 2 * x[3] + 2 * p) % 3) - 1)

StateQ(sh, p) ==
    [x \in Indices(sh, "Q") |->
        CASE x[1] = 0 -> CellField(p, "w", x)
          [] x[1] = 1 -> Mul(CellField(p, "h", x), CellField(p, "u", x))
          [] x[1] = 2 -> Mul(CellField(p, "h", x), CellField(p, "v", x))]

StateU(sh, p) ==
    [x \in Indices(sh, "U") |->
        CASE x[1] = 0 -> CellField(p, "h", x)
          [] x[1] = 1 -> CellField(p, "u", x)
          [] x[1] = 2 -> CellField(p, "v", x)]

Bed(sh, A) == [x \in Indices(sh, A) |-> Num((x[2] + x[3]) % 2)]

FaceBuffers == {"xmQ", "xpQ", "ymQ", "ypQ", "xmU", "xpU", "ymU", "ypU"}

Memory(sh, p) ==
    [A \in DOMAIN sh |->
        CASE A = "Q" -> StateQ(sh, p)
          [] A = "U" -> StateU(sh, p)
          [] A \in {"Bx", "By"} -> Bed(sh, A)
          [] OTHER -> [x \in Indices(sh, A) |-> 0]]

\* the memory a run of the Q-based scheme starts from: its velocity kernel
\* writes quotients, so the momentum and velocity components of the face
\* buffers hold extended rationals
QMemory(sh, p) ==
    [A \in DOMAIN sh |->
        IF A \in FaceBuffers
        THEN [x \in Indices(sh, A) |-> IF x[1] = 0 THEN 0 ELSE Fin(0)]
        ELSE Memory(sh, p)[A]]

Schemes == Factories

\* the tolerances of the run's configuration, drytol > tol
RunTol == Num(MaxTol)
RunDrytol == Num(MaxTol + 1)

Edges == 0..3
Comps == 0..2

NoLast == <<-1, -1>>

Init ==
    /\ ngh = 2
    /\ \E N \in 1..MaxN : shape = Shapes(N, N, ngh)
    /\ build \in {"cython0", "cython3"}
    /\ \E f \in Schemes :
          /\ args = [factory |-> f, ornt |-> IntArg(0), comp |-> 0,
                     tol |-> RunTol, drytol |-> RunDrytol]
          /\ bcs = [e \in Edges |-> [c \in Comps |->
                        CallFactory(f, IntArg(e), c, shape, ngh,
                                    RunTol, RunDrytol, build).bc]]
    /\ ret = NoRet
    /\ profile = 0
    /\ mem = IF args.factory = "linear_extrap_factory"
             THEN QMemory(shape, 0) ELSE Memory(shape, 0)
    /\ last = NoLast
    /\ twice = FALSE
    /\ fresh = {}
    /\ intact = {}
    /\ steps = 0
    /\ kin = [grp |-> "none"]
    /\ kout = [kernel |-> "none"]

\* unit bc writes into a depth slot of the depth unit of edge d
Clobbers(bc, d) ==
    \E s \in OutSlots(bc), t \in DepthSlots :
        LET v == bc.v[s]
            w == bcs[d][0].v[t]
        IN  /\ v.buf = w.buf /\ v.comp = w.comp
            /\ v.r0 <= w.r1 /\ w.r0 <= v.r1
            /\ v.c0 <= w.c1 /\ w.c0 <= v.c1

\* bcs[e][c]()
Call(e, c) ==
    /\ steps < MaxSteps
    /\ mem' = Invoke(bcs[e][c], mem)
    /\ last' = <<e, c>>
    /\ twice' = (last = <<e, c>>)
    /\ fresh' = IF c = 0 THEN fresh \cup {e} ELSE fresh
    /\ intact' = (IF c = 0 THEN {e} ELSE {}) \cup { d \in intact : ~Clobbers(bcs[e][c], d) }
    /\ steps' = steps + 1
    /\ UNCHANGED <<profile, bcs, fvars, kvars>>

\* a depth unit is invoked
CallWH ==
    /\ steps < MaxSteps
    /\ \E e \in Edges : Call(e, 0)

\* a velocity unit is invoked
CallOther ==
    /\ steps < MaxSteps
    /\ \E e \in Edges, c \in {1, 2} : Call(e, c)

\* the solver advances: the interior state changes, the face buffers and
\* the bed stay
Evolve ==
    /\ steps < MaxSteps
    /\ \E p \in 0..MaxProfile :
          /\ p # profile
          /\ profile' = p
          /\ mem' = [mem EXCEPT !["Q"] = StateQ(shape, p), !["U"] = StateU(shape, p)]
    /\ last' = NoLast
    /\ twice' = FALSE
    /\ fresh' = {}
    /\ intact' = intact
    /\ steps' = steps + 1
    /\ UNCHANGED <<bcs, fvars, kvars>>

Next == CallWH \/ CallOther \/ Evolve

Spec == Init /\ [][Next]_vars

----------------------------------------------------------------------------
(* Claims about the kernels, checked under KernelSpec.                     *)

DepthKernels == {"linear_wh", "outflow_wh"}

\* the two face depths the linear depth kernel extrapolates from kin
ExtrapBc == kin.wc0 + Half(kin.wc0 - kin.wc1) - kin.bbc
ExtrapOther == kin.wc0 - Half(kin.wc0 - kin.wc1) - kin.bother

\* C1: with tol >= 0, every depth the hc0-based linear kernel or the outflow
\* kernel writes (hbci, hbco, hother) is >= 0, in every branch.
C1_DepthNonNegative ==
    (kout.kernel \in DepthKernels /\ kin.tol >= 0) =>
        /\ kout.out.hbci >= 0
        /\ kout.out.hbco >= 0
        /\ kout.out.hother >= 0

\* the linear kernel ran on a wet cell whose boundary face extrapolates to a
\* negative depth, and clamped it
C1_Witness ==
    /\ kout.kernel = "linear_wh"
    /\ kin.tol >= 0 /\ kin.hc0 >= kin.tol
    /\ ExtrapBc < 0
    /\ kout.out.hbci = 0 /\ kout.out.hother > 0

\* C2: after any depth kernel (hc0-based linear, outflow, Q-based linear) the
\* written elevation of each face is the written depth plus that face's bed.
C2_ElevationIsDepthPlusBed ==
    kout.kernel \in DepthKernels \cup {"q_linear_wh"} =>
        /\ kout.out.wbci = kout.out.hbci + kin.bbc
        /\ kout.out.wbco = kout.out.hbco + kin.bbc
        /\ kout.out.wother = kout.out.hother + kin.bother

\* a depth kernel clamped the other face, so that both elevations written
\* differ from the extrapolated ones
C2_Witness ==
    /\ kout.kernel \in {"linear_wh", "q_linear_wh"}
    /\ kin.tol >= 0 /\ kin.hc0 >= kin.tol
    /\ ExtrapBc >= kin.tol /\ ExtrapOther < kin.tol
    /\ kout.out.hother = 0
    /\ kout.out.wother = kin.bother
    /\ kout.out.wother # kin.wc0 - Half(kin.wc0 - kin.wc1)
    /\ kout.out.wbci # kin.wc0 + Half(kin.wc0 - kin.wc1)

\* C3: when hc0 < tol, the hc0-based linear kernel and the outflow kernel
\* write depth 0 at the three faces and the bed elevation as elevation,
\* whatever wc0 and wc1 are.
C3_DryStencil ==
    (kout.kernel \in DepthKernels /\ kin.hc0 < kin.tol) =>
        /\ kout.out.hbci = 0 /\ kout.out.hbco = 0 /\ kout.out.hother = 0
        /\ kout.out.wbci = kin.bbc /\ kout.out.wbco = kin.bbc
        /\ kout.out.wother = kin.bother

\* a dry cell under water surface values that extrapolate to wet faces
C3_Witness ==
    /\ kout.kernel \in DepthKernels
    /\ kin.hc0 < kin.tol
    /\ ExtrapBc >= kin.tol /\ ExtrapBc > 0
    /\ ExtrapOther >= kin.tol /\ ExtrapOther > 0
    /\ kin.wc0 # kin.wc1
    /\ kout.out.hbci = 0 /\ kout.out.wother = kin.bother

\* C4: in the hc0-based linear kernel with hc0 >= tol, when exactly one of
\* the two extrapolated face depths is below tol, that face gets depth 0 and
\* the opposite face exactly 2 * hc0, so hbci + hother = 2 * hc0.
C4_MirrorIdentity ==
    (/\ kout.kernel = "linear_wh"
     /\ kin.hc0 >= kin.tol
     /\ (ExtrapBc < kin.tol) # (ExtrapOther < kin.tol)) =>
        /\ ExtrapBc < kin.tol =>
              kout.out.hbci = 0 /\ kout.out.hother = 2 * kin.hc0
        /\ ExtrapOther < kin.tol =>
              kout.out.hother = 0 /\ kout.out.hbci = 2 * kin.hc0
        /\ kout.out.hbci + kout.out.hother = 2 * kin.hc0

\* the other face clamped, the boundary face mirrored to 2 * hc0, which is
\* not the depth it extrapolated to
C4_Witness ==
    /\ kout.kernel = "linear_wh"
    /\ kin.hc0 >= kin.tol /\ kin.hc0 > 0
    /\ ExtrapBc >= kin.tol /\ ExtrapOther < kin.tol
    /\ kout.out.hbci = 2 * kin.hc0
    /\ kout.out.hbci # ExtrapBc

VelocityKernels == {"linear_other", "outflow_other"}

\* face depth h lies in [0, drytol)
Thin(h) == 0 <= h /\ h < kin.drytol

\* C5: in the U-based velocity kernels (linear and outflow), each of the
\* three faces whose own depth lies in [0, drytol) gets momentum 0 and
\* velocity 0, whatever uc0 and uc1 are.
C5_DrytolGating ==
    kout.kernel \in VelocityKernels =>
        /\ Thin(kin.hbci) => kout.out.qbci = 0 /\ kout.out.ubci = 0
        /\ Thin(kin.hbco) => kout.out.qbco = 0 /\ kout.out.ubco = 0
        /\ Thin(kin.hother) => kout.out.qother = 0 /\ kout.out.uother = 0

\* a thin but wet inner face (0 < hbci < drytol) beside a wet outer face
\* under a non-zero velocity: the inner face is gated, the outer is not
C5_Witness ==
    /\ kout.kernel = "linear_other"
    /\ 0 < kin.hbci /\ kin.hbci < kin.drytol
    /\ kin.hbco >= kin.drytol
    /\ kin.uc0 # 0 /\ kin.uc0 # kin.uc1
    /\ kout.out.ubci = 0 /\ kout.out.qbci = 0
    /\ kout.out.ubco # 0 /\ kout.out.qbco # 0

----------------------------------------------------------------------------
(* Claims about the factories and the view mappers, under FactorySpec.     *)

\* the edge id an edge argument stands for: 0..3 for the ids themselves and
\* for their aliases, -1 for anything else
EdgeIdOf(x) ==
    IF x.t = "int" THEN (IF x.i \in 0..3 THEN x.i ELSE -1)
    ELSE CASE x.s \in {"w", "west"} -> 0
           [] x.s \in {"e", "east"} -> 1
           [] x.s \in {"s", "south"} -> 2
           [] x.s \in {"n", "north"} -> 3
           [] OTHER -> -1

Called == args.factory # "none"

\* the views the __call__ of a unit hands to its kernel
KernelSlots(bc) ==
    CASE bc.cls = "cupy_linear_extrap.LinearExtrapWH" ->
            Slots(bc.cls) \ {"ubci", "ubco", "uother"}
      [] bc.cls = "cupy_linear_extrap.LinearExtrapOther" ->
            Slots(bc.cls) \ {"bbc", "bother"}
      [] OTHER -> Slots(bc.cls)

FullyBound(bc) == \A s \in KernelSlots(bc) : bc.v[s] # NoView

\* C7: a factory call with ngh # 2, with comp outside {0,1,2} or with a
\* numeric ornt outside {0,1,2,3} ends in an error delivered to the caller,
\* and no unit with unbound views is ever handed back.
C7_ConstructionRejects ==
    /\ (/\ Called
        /\ \/ ngh # 2
           \/ args.comp \notin {0, 1, 2}
           \/ (args.ornt.t = "int" /\ args.ornt.i \notin 0..3)) => ret.kind = "raise"
    /\ ret.kind = "unit" => FullyBound(ret.bc)

\* C8: in each factory an alias string yields the unit the numeric id of its
\* edge yields, and any other edge value (an unrecognised string, a number
\* outside 0..3) makes the factory fail instead of returning a unit.
C8_EdgeAliases ==
    Called =>
        /\ (args.ornt.t = "str" /\ EdgeIdOf(args.ornt) # -1) =>
              ret = CallFactory(args.factory, IntArg(EdgeIdOf(args.ornt)), args.comp,
                                shape, ngh, args.tol, args.drytol, build)
        /\ EdgeIdOf(args.ornt) = -1 => ret.kind = "raise"

\* The polarity table: where each role of a slot lies along the axis normal
\* to edge e, for n faces and m cells (ghosts included) along that axis.
\* side "p" is the plus-side face buffer, "m" the minus-side one.
PolarityTable(e, n, m, g) ==
    IF e \in {0, 2}
    THEN [inner |-> [side |-> "p", idx |-> 0],
          outer |-> [side |-> "m", idx |-> 0],
          other |-> [side |-> "m", idx |-> 1],
          bed_bc |-> 0, bed_other |-> 1,
          cell0 |-> g, cell1 |-> g + 1]
    ELSE [inner |-> [side |-> "m", idx |-> n - 1],
          outer |-> [side |-> "p", idx |-> n - 1],
          other |-> [side |-> "p", idx |-> n - 2],
          bed_bc |-> n - 1, bed_other |-> n - 2,
          cell0 |-> m - g - 1, cell1 |-> m - g - 2]

FaceBuf == [x |-> [m |-> [Q |-> "xmQ", U |-> "xmU"], p |-> [Q |-> "xpQ", U |-> "xpU"]],
            y |-> [m |-> [Q |-> "ymQ", U |-> "ymU"], p |-> [Q |-> "ypQ", U |-> "ypU"]]]

\* the array, the component and the index along the normal axis that the
\* polarity table gives slot s of a unit of variable group comp at edge e
ExpectedSlot(s, e, comp, sh, g) ==
    LET ax == IF e \in {0, 1} THEN "x" ELSE "y"
        k == IF ax = "x" THEN 2 ELSE 1
        n == Shape(sh, FaceBuf[ax]["m"]["Q"], k)
        m == Shape(sh, "Q", k)
        T == PolarityTable(e, n, m, g)
        role == CASE s \in {"wbci", "qbci", "hbci", "ubci"} -> T.inner
                  [] s \in {"wbco", "qbco", "hbco", "ubco"} -> T.outer
                  [] OTHER -> T.other
        face(fam, c) == [buf |-> FaceBuf[ax][role.side][fam], comp |-> c, idx |-> role.idx]
    IN  CASE s \in {"wbci", "wbco", "wother"} -> face("Q", 0)
          [] s \in {"qbci", "qbco", "qother"} -> face("Q", comp)
          [] s \in {"hbci", "hbco", "hother"} -> face("U", 0)
          [] s \in {"ubci", "ubco", "uother"} -> face("U", comp)
          [] s = "bbc" -> [buf |-> IF ax = "x" THEN "Bx" ELSE "By", comp |-> 0,
                           idx |-> T.bed_bc]
          [] s = "bother" -> [buf |-> IF ax = "x" THEN "Bx" ELSE "By", comp |-> 0,
                              idx |-> T.bed_other]
          [] s = "wc0" -> [buf |-> "Q", comp |-> 0, idx |-> T.cell0]
          [] s = "wc1" -> [buf |-> "Q", comp |-> 0, idx |-> T.cell1]
          [] s = "hc0" -> [buf |-> "U", comp |-> 0, idx |-> T.cell0]
          [] s = "uc0" -> [buf |-> "U", comp |-> comp, idx |-> T.cell0]
          [] s = "uc1" -> [buf |-> "U", comp |-> comp, idx |-> T.cell1]
          [] s = "qc0" -> [buf |-> "Q", comp |-> comp, idx |-> T.cell0]
          [] s = "qc1" -> [buf |-> "Q", comp |-> comp, idx |-> T.cell1]

\* view w lies in the array and component x names, at index x.idx along the
\* axis normal to edge e
LiesAt(w, x, e) ==
    /\ w.buf = x.buf /\ w.comp = x.comp
    /\ IF e \in {0, 1} THEN w.c0 = x.idx /\ w.c1 = x.idx
                       ELSE w.r0 = x.idx /\ w.r1 = x.idx

\* C9: every unit a factory binds for a valid call (ngh = 2, comp in 0..2,
\* a recognised edge) has each of its slots where the polarity table puts
\* it, the depth slots in component 0 of the U face buffers.
C9_PolarityTable ==
    (Called /\ ngh = 2 /\ args.comp \in 0..2 /\ EdgeIdOf(args.ornt) # -1) =>
        /\ ret.kind = "unit"
        /\ \A s \in KernelSlots(ret.bc) :
              LiesAt(ret.bc.v[s], ExpectedSlot(s, EdgeIdOf(args.ornt), args.comp, shape, ngh),
                     EdgeIdOf(args.ornt))

\* a velocity unit of the hc0-based linear scheme bound at the east edge of
\* a grid with more than two faces along x
C9_Witness ==
    /\ args.factory = "linear_extrap_bc_factory"
    /\ EdgeIdOf(args.ornt) = 1 /\ args.comp = 2
    /\ ret.kind = "unit"
    /\ Shape(shape, "xmU", 2) = 3
    /\ ret.bc.v["uother"] = View("xpU", 2, All(Shape(shape, "xpU", 1)), Ix(1))
    /\ ret.bc.v["hbci"] = View("xmU", 0, All(Shape(shape, "xmU", 1)), Ix(2))

----------------------------------------------------------------------------
(* Claims about invoking bound units, under Spec.                          *)

\* C6: invoking a bound unit a second time in a row, with nothing changed in
\* between (no other unit invoked, the interior state not moved), leaves
\* every array, the face buffers among them, as the first invocation left it.
C6_Idempotence ==
    [][(last # NoLast /\ last' = last /\ steps' = steps + 1) => mem' = mem]_vars

\* a unit invoked twice in a row whose first invocation wrote a non-zero
\* value into a face buffer
C6_Witness ==
    /\ twice
    /\ \E s \in OutSlots(bcs[last[1]][last[2]]) :
          Get(mem, bcs[last[1]][last[2]].v[s], 0) # 0

----------------------------------------------------------------------------
(* The outflow scheme against the hc0-based linear scheme.                 *)

\* both schemes bind every slot they share to the same region of the same
\* array, for every shape, edge, variable group and build
SameBinding ==
    \A NX \in 1..MaxN, NY \in 1..MaxN, e \in Edges, c \in Comps,
       bld \in {"cython0", "cython3"} :
        LET o == outflow_bc_factory(IntArg(e), c, Shapes(NX, NY, 2), 2,
                                    RunTol, RunDrytol, bld)
            l == linear_extrap_bc_factory(IntArg(e), c, Shapes(NX, NY, 2), 2,
                                          RunTol, RunDrytol, bld)
        IN  /\ o.kind = "unit" /\ l.kind = "unit"
            /\ o.bc.tol = l.bc.tol /\ o.bc.drytol = l.bc.drytol
            /\ Slots(o.bc.cls) = Slots(l.bc.cls) \ {"wc1", "uc1"}
            /\ \A s \in Slots(o.bc.cls) : o.bc.v[s] = l.bc.v[s] /\ o.bc.v[s] # NoView

\* C10: the outflow kernels write the six outputs the hc0-based linear
\* kernels write when the second interior layer equals the first (wc1 = wc0
\* for the depth kernel, uc1 = uc0 for the velocity kernel), and both
\* schemes bind the slots they share to the same array regions.
C10_OutflowEquivalence ==
    /\ kout.kernel = "outflow_wh" =>
          kout.out = WHOut(linear_extrap_bc_w_h_kernel(
                               kin.wc0, kin.wc0, kin.hc0, kin.bbc, kin.bother, kin.tol))
    /\ kout.kernel = "outflow_other" =>
          kout.out = OtherOut(linear_extrap_bc_kernel(
                                  kin.uc0, kin.uc0, kin.hbci, kin.hbco, kin.hother,
                                  kin.drytol))
    /\ SameBinding

\* the outflow depth kernel on a wet cell whose other face falls below the
\* bed, so that the fix mirrors the depth onto the boundary face
C10_Witness ==
    /\ kout.kernel = "outflow_wh"
    /\ kin.hc0 >= kin.tol /\ kin.tol >= 0 /\ kin.hc0 > 0
    /\ kin.wc0 - kin.bbc >= kin.tol /\ kin.wc0 - kin.bother < kin.tol
    /\ kout.out.hother = 0 /\ kout.out.hbci = kin.hc0 * 2
    /\ kout.out.wbco = kin.hc0 * 2 + kin.bbc

\* the cell-centre depth is tied to the elevation and the two face beds:
\* 2 * hc0 = 2 * wc0 - bbc - bother
Tied == kin.hc0 * 2 = kin.wc0 * 2 - kin.bbc - kin.bother

\* what the hc0-based and the Q-based linear depth kernels write for kin
LinearWH ==
    WHOut(linear_extrap_bc_w_h_kernel(
              kin.wc0, kin.wc1, kin.hc0, kin.bbc, kin.bother, kin.tol))

QLinearWH ==
    WHOut(q_linear_extrap_bc_w_h_kernel(kin.wc0, kin.wc1, kin.bbc, kin.bother, kin.tol))

\* C18: for every input with hc0 >= tol and 2 * hc0 = 2 * wc0 - bbc - bother
\* the elevation-mirror depth kernel of the Q-based scheme and the
\* depth-mirror depth kernel of the hc0-based scheme write the same six
\* outputs; outside that condition inputs exist on which they differ
\* (C18_DryDiffers, C18_UntiedDiffers).
C18_LinearVariantsAgree ==
    (kin.grp = "wh" /\ kin.hc0 >= kin.tol /\ Tied) =>
        /\ kout.kernel = "q_linear_wh" => kout.out = LinearWH
        /\ kout.kernel = "linear_wh" => kout.out = QLinearWH

\* the Q-based depth kernel on a tied wet cell whose boundary face falls
\* below tol: the fix mirrors twice the cell depth onto the other face
C18_Witness ==
    /\ kout.kernel = "q_linear_wh"
    /\ kin.hc0 >= kin.tol /\ Tied /\ kin.hc0 > 0 /\ kin.bbc # kin.bother
    /\ kin.wc0 + Half(kin.wc0 - kin.wc1) - kin.bbc < kin.tol
    /\ kout.out.hbci = 0 /\ kout.out.hother = kin.hc0 * 2
    /\ kout.out = LinearWH

\* a tied cell below tol: the hc0-based kernel writes the dry stencil, the
\* Q-based kernel mirrors twice the cell depth onto one face
C18_DryDiffers ==
    /\ kout.kernel = "q_linear_wh"
    /\ kin.hc0 < kin.tol /\ Tied
    /\ LinearWH.hbci = 0 /\ LinearWH.hother = 0
    /\ kin.hc0 * 2 \in {kout.out.hbci, kout.out.hother} /\ kin.hc0 # 0
    /\ kout.out # LinearWH

\* a wet cell whose depth is not tied to the elevation and the face beds: a
\* fix branch mirrors different depths in the two kernels
C18_UntiedDiffers ==
    /\ kout.kernel = "q_linear_wh"
    /\ kin.hc0 >= kin.tol /\ ~Tied
    /\ kout.out # LinearWH

----------------------------------------------------------------------------
(* Claims about runs of the bound units, under Spec.                       *)

\* the scheme whose units the run invokes
Scheme == args.factory

\* the elements of the units of edge e: the rows of the x-edges, the columns
\* of the y-edges
Elements(e) ==
    IF e \in {0, 1} THEN 0..(Shape(shape, "xmU", 1) - 1)
                    ELSE 0..(Shape(shape, "ymU", 2) - 1)

\* the polarity table for edge e of the run's grid
Table(e) ==
    IF e \in {0, 1}
    THEN PolarityTable(e, Shape(shape, "xmU", 2), Shape(shape, "Q", 2), ngh)
    ELSE PolarityTable(e, Shape(shape, "ymU", 1), Shape(shape, "Q", 1), ngh)

\* element i of component c of the layer idx of array A normal to edge e
\* (off ghost layers skipped along the edge, as in Q and U)
Layer(e, A, c, idx, off, i) ==
    IF e \in {0, 1} THEN mem[A][<<c, off + i, idx>>] ELSE mem[A][<<c, idx, off + i>>]

\* the inputs of element i at edge e, read where the polarity table puts them
CellW0(e, i) == Layer(e, "Q", 0, Table(e).cell0, ngh, i)
CellW1(e, i) == Layer(e, "Q", 0, Table(e).cell1, ngh, i)
CellH0(e, i) == Layer(e, "U", 0, Table(e).cell0, ngh, i)
BedBc(e, i) == Layer(e, IF e \in {0, 1} THEN "Bx" ELSE "By", 0, Table(e).bed_bc, 0, i)
BedOther(e, i) == Layer(e, IF e \in {0, 1} THEN "Bx" ELSE "By", 0, Table(e).bed_other, 0, i)

\* the face value of family fam ("Q" or "U"), component c, at the face the
\* polarity table gives role ("inner", "outer", "other") at edge e
Face(e, role, fam, c, i) ==
    Layer(e, FaceBuf[IF e \in {0, 1} THEN "x" ELSE "y"][Table(e)[role].side][fam],
          c, Table(e)[role].idx, 0, i)

\* the two extrapolated depths of element i at edge e
SlopeBc(e, i) == CellW0(e, i) + Half(CellW0(e, i) - CellW1(e, i)) - BedBc(e, i)
SlopeOther(e, i) == CellW0(e, i) - Half(CellW0(e, i) - CellW1(e, i)) - BedOther(e, i)

\* flat bed at 0, wc0 = 5, wc1 = 3: hbci = hbco = 6 and hother = 4
C11_Example ==
    \A hc0 \in NumRange(0, MaxH), tol \in NumRange(0, MaxTol) :
        hc0 >= tol =>
            LET o == linear_extrap_bc_w_h_kernel(Num(5), Num(3), hc0, 0, 0, tol)
            IN  o.hbci = Num(6) /\ o.hbco = Num(6) /\ o.hother = Num(4)

\* C11: where hc0 >= tol and both extrapolated depths are >= tol, the linear
\* depth unit of the west edge and that of the east edge each leave
\* hbci = hbco = wc0 + (wc0 - wc1)/2 - bbc and
\* hother = wc0 - (wc0 - wc1)/2 - bother in their own inner, outer and other
\* faces of the polarity table, computed from their own first layer, second
\* layer and beds; flat bed, wc0 = 5, wc1 = 3 gives 6 and 4.
C11_UnclampedLinear ==
    /\ C11_Example
    /\ \A e \in {0, 1} :
          (last = <<e, 0>> /\ Scheme = "linear_extrap_bc_factory") =>
              \A i \in Elements(e) :
                  (/\ CellH0(e, i) >= RunTol
                   /\ SlopeBc(e, i) >= RunTol
                   /\ SlopeOther(e, i) >= RunTol) =>
                      /\ Face(e, "inner", "U", 0, i) = SlopeBc(e, i)
                      /\ Face(e, "outer", "U", 0, i) = SlopeBc(e, i)
                      /\ Face(e, "other", "U", 0, i) = SlopeOther(e, i)

\* the east depth unit of the linear scheme has just written an unclamped
\* element with a slope: the boundary face and the other face differ
C11_Witness ==
    /\ last = <<1, 0>> /\ Scheme = "linear_extrap_bc_factory"
    /\ \E i \in Elements(1) :
          /\ CellH0(1, i) >= RunTol
          /\ SlopeBc(1, i) >= RunTol /\ SlopeOther(1, i) >= RunTol
          /\ CellW0(1, i) # CellW1(1, i)
          /\ Face(1, "inner", "U", 0, i) = SlopeBc(1, i)
          /\ Face(1, "other", "U", 0, i) = SlopeOther(1, i)

\* the roles a unit of variable group c writes
OwnRoles(c) ==
    IF c = 0 THEN {"wbci", "wbco", "wother", "hbci", "hbco", "hother"}
             ELSE {"qbci", "qbco", "qother", "ubci", "ubco", "uother"}

\* element x of array A lies in a region the unit of edge e and group c owns
Own(A, x, e, c) ==
    \E s \in OwnRoles(c) :
        LET r == ExpectedSlot(s, e, c, shape, ngh)
        IN  /\ r.buf = A /\ r.comp = x[1]
            /\ IF e \in {0, 1} THEN x[3] = r.idx ELSE x[2] = r.idx

\* the step invokes the unit of edge e and group c
Invoked(e, c) == steps' = steps + 1 /\ last' = <<e, c>>

\* C12: invoking a bound unit leaves Q, U, Bx, By, the bindings and the
\* tolerances of the units unchanged, and changes no face-buffer element
\* outside the unit's own regions: the six elevation and depth faces of a
\* depth unit, the six momentum and velocity faces of a velocity unit (which
\* therefore leaves the face depths it reads alone).
C12_Frame ==
    [][\A e \in Edges, c \in Comps :
          Invoked(e, c) =>
              /\ bcs' = bcs
              /\ \A A \in {"Q", "U", "Bx", "By"} : mem'[A] = mem[A]
              /\ \A A \in FaceBuffers : \A x \in DOMAIN mem[A] :
                    ~Own(A, x, e, c) => mem'[A][x] = mem[A][x]
              /\ c # 0 => \A s \in DepthSlots : \A i \in Elements(e) :
                    Get(mem', bcs[e][c].v[s], i) = Get(mem, bcs[e][c].v[s], i)]_vars

\* a velocity unit of the north edge has run over non-zero face depths and
\* written a non-zero momentum
C12_Witness ==
    /\ last = <<3, 1>> /\ Scheme = "outflow_bc_factory"
    /\ \E i \in Elements(3) :
          /\ Get(mem, bcs[3][1].v["hbci"], i) # 0
          /\ Get(mem, bcs[3][1].v["qbci"], i) # 0

\* element x of array A is written by unit bc
Writes(bc, A, x) == \E s \in OutSlots(bc) : Covers(bc.v[s], A, x)

\* the units of edges e1 and e2 write no face-buffer element in common
Disjoint(e1, e2) ==
    \A c1 \in Comps, c2 \in Comps : \A A \in FaceBuffers : \A x \in DOMAIN mem[A] :
        ~(Writes(bcs[e1][c1], A, x) /\ Writes(bcs[e2][c2], A, x))

\* invoking the depth units of e1 and e2 and then their velocity units
\* gives the same memory whichever edge goes first at each stage
AnyOrder(e1, e2) ==
    /\ Invoke(bcs[e2][0], Invoke(bcs[e1][0], mem))
          = Invoke(bcs[e1][0], Invoke(bcs[e2][0], mem))
    /\ \A c \in {1, 2} :
          Invoke(bcs[e2][c], Invoke(bcs[e1][c], mem))
              = Invoke(bcs[e1][c], Invoke(bcs[e2][c], mem))

\* C13: on every grid the shape check accepts, a single interior column or
\* row included, the units of two different edges write disjoint regions of
\* the face buffers, and invoking them in either order gives the same face
\* buffers.
C13_EdgeDisjoint ==
    \A e1 \in Edges, e2 \in Edges :
        e1 # e2 => Disjoint(e1, e2) /\ AnyOrder(e1, e2)

\* the same on grids of at least two interior cells along each axis
C13_WideGrids ==
    (Shape(shape, "xmU", 2) > 2 /\ Shape(shape, "ymU", 1) > 2) =>
        \A e1 \in Edges, e2 \in Edges :
            e1 # e2 => Disjoint(e1, e2) /\ AnyOrder(e1, e2)

\* on a grid of one interior column the other face of the west edge is the
\* inner boundary face of the east edge
C13_Overlap ==
    /\ Shape(shape, "xmU", 2) = 2
    /\ Scheme = "linear_extrap_factory"
    /\ bcs[0][0].v["hother"] = bcs[1][0].v["hbci"]
    /\ ~AnyOrder(0, 1)

\* the three faces of a velocity unit: the depth it reads, the momentum and
\* the velocity it writes
VelocityFaces ==
    {[h |-> "hbci", q |-> "qbci", u |-> "ubci"],
     [h |-> "hbco", q |-> "qbco", u |-> "ubco"],
     [h |-> "hother", q |-> "qother", u |-> "uother"]}

\* element i of view w holds a current depth: what a depth unit that writes
\* this element computes from the interior state as it is now
Current(w, i) ==
    \E e \in Edges, s \in DepthSlots :
        /\ Covers(bcs[e][0].v[s], w.buf, At(w, i))
        /\ Get(mem, w, i)
             = KernelOf(bcs[e][0], mem, IndexIn(bcs[e][0].v[s], At(w, i)))[s]

\* the schemes whose velocity units take the velocity of the cell layers
UBased == {"linear_extrap_bc_factory", "outflow_bc_factory"}

\* C14: the velocity units of an edge read their three depths from the
\* regions the depth unit of that edge writes; and when a velocity unit has
\* run after the depth unit of its edge, with no change of the interior
\* state since, each of its faces holds a current depth, momentum = depth
\* * velocity where that depth is >= drytol, and momentum = velocity = 0
\* where it is below drytol.
C14_DepthBeforeVelocity ==
    /\ \A e \in Edges, c \in {1, 2}, s \in DepthSlots :
          bcs[e][c].v[s] = bcs[e][0].v[s]
    /\ \A e \in Edges, c \in {1, 2} :
          (last = <<e, c>> /\ e \in fresh /\ Scheme \in UBased) =>
              \A i \in Elements(e), f \in VelocityFaces :
                  LET bc == bcs[e][c]
                      h == Get(mem, bc.v[f.h], i)
                      q == Get(mem, bc.v[f.q], i)
                      u == Get(mem, bc.v[f.u], i)
                  IN  /\ Current(bc.v[f.h], i)
                      /\ h >= bc.drytol => q = Mul(h, u)
                      /\ h < bc.drytol => q = 0 /\ u = 0

\* the interior state has changed, then the depth unit of the south edge
\* and a velocity unit of the south edge have run: a face deep enough
\* carries a non-zero momentum
C14_Witness ==
    /\ last = <<2, 1>> /\ 2 \in fresh /\ profile # 0 /\ Scheme \in UBased
    /\ \E i \in Elements(2) :
          /\ Get(mem, bcs[2][1].v["hbci"], i) >= bcs[2][1].drytol
          /\ Get(mem, bcs[2][1].v["qbci"], i) # 0
          /\ Get(mem, bcs[2][1].v["qbci"], i)
               = Mul(Get(mem, bcs[2][1].v["hbci"], i), Get(mem, bcs[2][1].v["ubci"], i))

\* a velocity unit has run before the depth unit of its edge: a face it
\* has written carries the momentum of a depth that is not current
C14_Stale ==
    /\ Scheme \in UBased
    /\ \E e \in Edges, c \in {1, 2} :
          /\ last = <<e, c>> /\ e \notin fresh
          /\ \E i \in Elements(e) :
                /\ ~Current(bcs[e][c].v["hbci"], i)
                /\ Get(mem, bcs[e][c].v["qbci"], i) # 0

----------------------------------------------------------------------------
(* Claims about the kernels of the Q-based linear scheme, under KernelSpec. *)

\* C15: with tol >= 0, every depth the Q-based linear depth kernel writes
\* (hbci, hbco, hother) is >= 0, the two branches that mirror the elevation
\* about wc0 included.
C15_QDepthNonNegative ==
    (kout.kernel = "q_linear_wh" /\ kin.tol >= 0) =>
        /\ kout.out.hbci >= 0
        /\ kout.out.hbco >= 0
        /\ kout.out.hother >= 0

\* the same for inputs whose cell is not below the mean of its two face
\* beds: 2 * wc0 >= bbc + bother
C15_AboveBed ==
    (/\ kout.kernel = "q_linear_wh" /\ kin.tol >= 0
     /\ 2 * kin.wc0 >= kin.bbc + kin.bother) =>
        /\ kout.out.hbci >= 0
        /\ kout.out.hbco >= 0
        /\ kout.out.hother >= 0

\* the boundary face is clamped and the mirrored elevation of the other
\* face lies below its bed: a negative depth is written
C15_NegativeMirror ==
    /\ kout.kernel = "q_linear_wh" /\ kin.tol >= 0
    /\ kin.wc0 + Half(kin.wc0 - kin.wc1) - kin.bbc < kin.tol
    /\ kout.out.hbci = 0
    /\ kout.out.hother = 2 * kin.wc0 - kin.bbc - kin.bother
    /\ kout.out.hother < 0

\* a double that is neither an infinity nor NaN
Finite(x) == x.d # 0

\* C16: in the Q-based velocity kernel each of the three faces whose own
\* depth is below drytol gets momentum 0 and velocity 0, the outer boundary
\* face by hbco; and no output is the result of a division by a face depth
\* of zero.
C16_QGating ==
    kout.kernel = "q_linear_other" =>
        /\ kin.hbci < kin.drytol => kout.out.qbci = Fin(0) /\ kout.out.ubci = Fin(0)
        /\ kin.hbco < kin.drytol => kout.out.qbco = Fin(0) /\ kout.out.ubco = Fin(0)
        /\ kin.hother < kin.drytol =>
              kout.out.qother = Fin(0) /\ kout.out.uother = Fin(0)
        /\ \A s \in {"qbci", "qbco", "qother", "ubci", "ubco", "uother"} :
              Finite(kout.out[s])

\* what does hold: the inner boundary face and the other face are gated by
\* their own depths, and with drytol > 0 every output is finite
C16_InnerAndOther ==
    kout.kernel = "q_linear_other" =>
        /\ kin.hbci < kin.drytol => kout.out.qbci = Fin(0) /\ kout.out.ubci = Fin(0)
        /\ kin.hother < kin.drytol =>
              kout.out.qother = Fin(0) /\ kout.out.uother = Fin(0)
        /\ kin.drytol > 0 =>
              \A s \in {"qbci", "qbco", "qother", "ubci", "ubco", "uother"} :
                  Finite(kout.out[s])

\* the outer depth is below drytol and the inner is not: the outer boundary
\* face keeps the momentum and the velocity of the inner one
C16_Straddle ==
    /\ kout.kernel = "q_linear_other"
    /\ 0 <= kin.hbco /\ kin.hbco < kin.drytol /\ kin.drytol <= kin.hbci
    /\ kout.out.qbco # Fin(0) /\ kout.out.ubco # Fin(0)
    /\ kout.out.qbco = kout.out.qbci /\ kout.out.ubco = kout.out.ubci

\* drytol = 0 and a boundary face of depth 0 under a non-zero momentum: the
\* velocity written is an infinity and the momentum NaN
C16_DivisionByZero ==
    /\ kout.kernel = "q_linear_other"
    /\ kin.drytol = 0 /\ kin.hbci = 0
    /\ ~Finite(kout.out.ubci) /\ kout.out.ubci # NaN
    /\ kout.out.qbci = NaN

\* C17: every depth unit leaves hbco = hbci and wbco = wbci at every
\* element; and a velocity unit that runs after the depth unit of its edge,
\* with no other write to the depth slots of that edge in between, leaves
\* ubco = ubci and qbco = qbci at every element.
C17_InnerOuterContinuity ==
    \A e \in Edges :
        /\ last = <<e, 0>> =>
              \A i \in Elements(e) :
                  /\ Face(e, "outer", "U", 0, i) = Face(e, "inner", "U", 0, i)
                  /\ Face(e, "outer", "Q", 0, i) = Face(e, "inner", "Q", 0, i)
        /\ \A c \in {1, 2} :
              (last = <<e, c>> /\ e \in intact) =>
                  \A i \in Elements(e) :
                      /\ Face(e, "outer", "U", c, i) = Face(e, "inner", "U", c, i)
                      /\ Face(e, "outer", "Q", c, i) = Face(e, "inner", "Q", c, i)

\* the depth unit and then a velocity unit of the east edge have run, and
\* the boundary face carries the same non-zero momentum on both sides
C17_Witness ==
    /\ last = <<1, 2>> /\ 1 \in intact /\ Scheme = "linear_extrap_bc_factory"
    /\ \E i \in Elements(1) :
          /\ Face(1, "inner", "U", 0, i) > 0
          /\ Face(1, "inner", "Q", 2, i) # 0
          /\ Face(1, "outer", "Q", 2, i) = Face(1, "inner", "Q", 2, i)

\* on a grid of one interior column the depth slots of the edge were last
\* written by another edge's depth unit: the two sides of the boundary face
\* differ
C17_Clobbered ==
    /\ \E e \in Edges, c \in {1, 2} :
          /\ last = <<e, c>> /\ e \notin intact
          /\ \E i \in Elements(e) :
                Face(e, "outer", "Q", c, i) # Face(e, "inner", "Q", c, i)

====
